---- MODULE Spec2Model ----
(***************************************************************************)
(* Resource lifecycle and resilience subsystem of mcp-software-engineer:   *)
(*   ResourceManager (the ledger)   utils/resource-manager.ts              *)
(*   ConnectionPool                 utils/resource-manager.ts              *)
(*   ErrorHandler.createCircuitBreaker   utils/errors.ts                   *)
(*   RateLimiter                    config/security.ts                     *)
(*   ErrorHandler.retry             utils/errors.ts                        *)
(*   MetricsCollector, withMetrics  monitoring/metrics.ts                  *)
(*   BaseTool.execute               tools/base-tool.ts                     *)
(*   AutoRecoverySystem             monitoring/auto-recovery.ts            *)
(* Each component has its own specification (SpecLedger, SpecCleanup,      *)
(* SpecPool, SpecPoolFair, SpecPoolRecovery, SpecPoolAtCap, SpecBreaker,   *)
(* SpecLimiter, SpecRetry, SpecMetrics, SpecWrap, SpecTool, SpecProcess,   *)
(* SpecPressure, SpecRecovery); the variables of the other components stay *)
(* at their initial value.                                                 *)
(***************************************************************************)
EXTENDS Integers, Sequences, FiniteSets, TLC

VARIABLES
    \* ---- ResourceManager ----
    processes,      \* keys of Map<string, ChildProcess>
    timers,         \* keys of Map<string, Timeout>
    connections,    \* keys of Map<string, any>
    fileHandles,    \* keys of Map<string, any>
    closing,        \* <<kind, id>> of unregisterConnection/-FileHandle suspended in close()
    lastCall,       \* outcome of the last register call
    \* ---- ConnectionPool ----
    minSize, maxSize,
    available,      \* T[]: sequence of connections
    inUse,          \* Map<string, T>: function id -> connection
    warmup,         \* initialize(): the minSize createConnection() promises
    warmupDone,     \* initialize() has resumed after Promise.allSettled
    callers,        \* per consumer: where its acquire()/release() call stands
    drainPc,        \* where the drain() call stands
    nextConn,       \* connections created so far (createFn resolutions)
    nextId,         \* ids given out so far
    destroyed,      \* the pooled connections destroyFn has been called on
    closed,         \* the pooled connections the ledger has called close() on
    draining,       \* the connections whose destroyFn promises drain() awaits
    staleRelease,   \* release() has been called with an id that is not in inUse
    \* ---- createCircuitBreaker ----
    threshold, timeout, resetTimeout,   \* options
    failures, lastFailureTime, state,   \* the closure's variables
    calls,          \* the calls made through the wrapped function, in call order
    streak,         \* failed calls settled since the last successful one
    \* (start: when the race began, kept while it is pending; before: the state the
    \* call found; waited: the time since the last failure against resetTimeout)
    \* ---- RateLimiter ----
    windowMs, maxRequests,
    requests,       \* Map<string, number[]>: identifier -> timestamps (absent = empty)
    history,        \* per identifier, every isAllowed call: [time, allowed]
    \* ---- ErrorHandler.retry ----
    maxAttempts, onRetry,   \* options (onRetry: whether the callback is given)
    attempt,        \* the loop variable
    retryPc,        \* where the retry() call stands
    invoked,        \* invocations of operation() so far
    thrown,         \* the errors operation() rejected with, in attempt order
    onRetryCalls,   \* the arguments of every onRetry call, in call order
    slept,          \* the delays of the setTimeout calls, in call order
    retryResult,    \* what retry() settled with
    \* ---- MetricsCollector ----
    operationStats, \* Map<string, {count, totalTime, minTime, maxTime, errors}>
    recorded,       \* per key, the recordOperation calls made: [duration, error]
    \* ---- ResourceManager.cleanup ----
    cleanupPc,      \* where the cleanup() call stands
    cleanupPending, \* ids whose unregister call made by cleanup() is suspended
    teardownFailed, \* a kill() threw or a close() rejected during this cleanup()
    \* ---- BaseTool ----
    toolTimeout,    \* this.timeout
    executions,     \* the execute() calls suspended in Promise.race: their start times
    completed,      \* execute() calls that have settled
    lastResult,     \* what the last settled execute() call settled with
    \* ---- child processes registered with the ledger ----
    children,       \* the ChildProcess objects: [alive, killed, signals, listens]
    processOf,      \* the values of Map<string, ChildProcess>: id -> child
    graceTimers,    \* the pending force-kill timers of unregisterProcess: [child, due]
    \* ---- withMetrics ----
    wrapped,        \* per tool, the calls through the wrapper: [pending, succeeded, failed]
    \* ---- AutoRecoverySystem: backpressure ----
    pressureTimers, \* the pending timers of implementBackpressure: their due times
    emitted,        \* the backpressure events emitted so far: [event, at]
    \* ---- AutoRecoverySystem: recovery ----
    isRecovering, lastRecoveryTime, recoveryAttempts,   \* the fields
    recoveries,     \* the attemptRecovery calls past their guards: [pc, due, health, before]
    lastAttempt,    \* the last attemptRecovery call: [reason, busy, tooSoon, started]
    recoveryStarts, \* 'recovery-start' events emitted
    failedInRow,    \* 'recovery-failed' events since the last 'recovery-success'
    shutdownRequests,   \* 'shutdown-requested' events emitted
    exitTimers,     \* the pending process.exit(1) timers: their due times
    processExited,  \* process.exit(1) has run
    \* ---- clock ----
    now             \* Date.now()

ledgerVars == <<processes, timers, connections, fileHandles, closing, lastCall>>

poolVars == <<minSize, maxSize, available, inUse, warmup, warmupDone, callers,
              drainPc, nextConn, nextId, destroyed, closed, draining, staleRelease>>

breakerVars == <<threshold, timeout, resetTimeout, failures, lastFailureTime, state,
                 calls, streak>>

limiterVars == <<windowMs, maxRequests, requests, history>>

retryVars == <<maxAttempts, onRetry, attempt, retryPc, invoked, thrown, onRetryCalls,
               slept, retryResult>>

metricsVars == <<operationStats, recorded>>

cleanupVars == <<cleanupPc, cleanupPending, teardownFailed>>

toolVars == <<toolTimeout, executions, completed, lastResult>>

childVars == <<children, processOf, graceTimers>>

\* the components that run on top of the ledger and the collector
wrapVars == <<wrapped>>

pressureVars == <<pressureTimers, emitted>>

recoveryVars == <<isRecovering, lastRecoveryTime, recoveryAttempts, recoveries,
                  lastAttempt, recoveryStarts, failedInRow, shutdownRequests,
                  exitTimers, processExited>>

runtimeVars == <<toolVars, childVars, wrapVars, pressureVars, recoveryVars>>

vars == <<ledgerVars, poolVars, breakerVars, limiterVars, retryVars, metricsVars,
          cleanupVars, runtimeVars, now>>

(***************************************************************************)
(* Bounds of the model                                                     *)
(***************************************************************************)
\* at most one kind holds more than MaxBackground entries at a time
MaxBackground == 0
\* unregister calls suspended in close() at the same time
MaxClosing == 1
\* consumers of the pool that call acquire()/release() concurrently
NumCallers == 2
\* largest maxSize / minSize option given to the constructor
MaxPoolSize == 2
\* connections createFn resolves with over a run
MaxConns == 2
\* acquire() calls that get an entry over a run
MaxIds == 2
\* largest threshold / resetTimeout option of a breaker
MaxThreshold == 2
MaxResetTimeout == 1
\* calls made through one breaker over a run
MaxCalls == 4
\* identifiers (tool names) that share one limiter
NumIdentifiers == 2
\* largest windowMs / maxRequests given to the limiter
MaxWindow == 2
MaxQuota == 3
\* isAllowed calls over a run
MaxChecks == 5
\* the clock runs from 0 to MaxTime
MaxTime == 2

\* largest maxAttempts option given to retry()
MaxAttempts == 3

\* ids registered per kind while cleanup() is examined
MaxEntries == 1

\* largest timeout option of a tool and execute() calls per run
MaxToolTimeout == 2
MaxExecutions == 3

\* child processes spawned over a run and the ids they are registered under
MaxChildren == 2
NumProcessIds == 1

\* calls made through withMetrics wrappers over a run
MaxWrappedCalls == 3

\* overloads detected over a run and the last value of the clock while backpressure
\* and child processes are examined (in units of TickMs)
MaxOverloads == 2
MaxClock == 7

\* recoveries started over a run and the last value of the clock while recoveries
\* are examined (in units of TickMs)
MaxRecoveries == 4
MaxRecoveryClock == 19

\* operation keys, largest duration (in tens of ms) and recordOperation calls per run
NumKeys == 1
MaxDuration == 3
MaxRecords == 3

Max(S) == CHOOSE x \in S : \A y \in S : y <= x
Min(S) == CHOOSE x \in S : \A y \in S : x <= y

(***************************************************************************)
(* ResourceManager                                                         *)
(***************************************************************************)
limits == [maxProcesses |-> 10, maxConnections |-> 100,
           maxFileHandles |-> 50, maxTimers |-> 100]

\* getUsage(): the reported counts
getUsage == [processes   |-> Cardinality(processes),
             connections |-> Cardinality(connections),
             fileHandles |-> Cardinality(fileHandles),
             timers      |-> Cardinality(timers)]

\* The ids a caller passes. Ids are opaque strings that the code only compares for
\* equality; the model takes an id that is not in the map (FreshId), the first id,
\* and the newest id of the map.
FreshId(map) == Min((1..(Cardinality(map) + 1)) \ map)
RegisterIds(map) == {FreshId(map)} \cup (map \cap {1})
UnregisterIds(map) ==
    {1, FreshId(map)} \cup (IF map = {} THEN {} ELSE {Max(map)})
\* unregisterConnection / unregisterFileHandle suspend in close()
AsyncUnregisterIds(map) == map \cap {1}

\* the model's exploration bound: one kind under load at a time
Loaded(p, t, c, f) ==
    Cardinality({k \in {1, 2, 3, 4} :
        <<Cardinality(p), Cardinality(t), Cardinality(c), Cardinality(f)>>[k]
            > MaxBackground}) <= 1

NoCall == [op |-> "none", atCap |-> FALSE, error |-> "none", grew |-> FALSE]
Outcome(op, size, limit, err, newSize) ==
    [op |-> op, atCap |-> (size = limit), error |-> err, grew |-> (newSize # size)]

registerProcess(id) ==
    IF Cardinality(processes) >= limits.maxProcesses
    THEN /\ lastCall' = Outcome("registerProcess", Cardinality(processes),
                                limits.maxProcesses, "Error", Cardinality(processes))
         /\ UNCHANGED <<processes, timers, connections, fileHandles, closing>>
    ELSE /\ processes' = processes \cup {id}
              /\ lastCall' = Outcome("registerProcess", Cardinality(processes),
                                limits.maxProcesses, "none", Cardinality(processes'))
         /\ UNCHANGED <<timers, connections, fileHandles, closing>>

unregisterProcess(id) ==
    /\ processes' = processes \ {id}
    /\ UNCHANGED <<timers, connections, fileHandles, closing, lastCall>>

\* A process registered under id exits: its once('exit') listener runs
\* unregisterProcess(id). Every id in the map carries such a listener, and the
\* listener of an id that is no longer in the map finds nothing to delete.
ProcessExit(id) ==
    /\ id \in processes
    /\ processes' = processes \ {id}
    /\ UNCHANGED <<timers, connections, fileHandles, closing, lastCall>>

registerTimer(id) ==
    IF Cardinality(timers) >= limits.maxTimers
    THEN /\ lastCall' = Outcome("registerTimer", Cardinality(timers),
                                limits.maxTimers, "Error", Cardinality(timers))
         /\ UNCHANGED <<processes, timers, connections, fileHandles, closing>>
    ELSE /\ timers' = timers \cup {id}
         /\ lastCall' = Outcome("registerTimer", Cardinality(timers),
                                limits.maxTimers, "none", Cardinality(timers'))
         /\ UNCHANGED <<processes, connections, fileHandles, closing>>

unregisterTimer(id) ==
    /\ timers' = timers \ {id}
    /\ UNCHANGED <<processes, connections, fileHandles, closing, lastCall>>

\* registerConnection without its cap check
registerConnectionUnchecked(id) ==
    /\ connections' = connections \cup {id}
    /\ lastCall' = Outcome("registerConnection", Cardinality(connections),
                           limits.maxConnections, "none", Cardinality(connections'))
    /\ UNCHANGED <<processes, timers, fileHandles, closing>>

registerConnection(id) ==
    IF Cardinality(connections) >= limits.maxConnections
    THEN /\ lastCall' = Outcome("registerConnection", Cardinality(connections),
                                limits.maxConnections, "Error", Cardinality(connections))
         /\ UNCHANGED <<processes, timers, connections, fileHandles, closing>>
    ELSE /\ connections' = connections \cup {id}
         /\ lastCall' = Outcome("registerConnection", Cardinality(connections),
                                limits.maxConnections, "none", Cardinality(connections'))
         /\ UNCHANGED <<processes, timers, fileHandles, closing>>

\* unregisterConnection up to its await: the entry is looked up and close() is called
unregisterConnection(id) ==
    /\ id \in connections
    /\ Cardinality(closing) < MaxClosing
    /\ closing' = closing \cup {<<"connection", id>>}
    /\ UNCHANGED <<processes, timers, connections, fileHandles, lastCall>>

\* close() has settled (resolved or rejected: the error is logged): the entry is deleted
unregisterConnectionResume(id) ==
    /\ <<"connection", id>> \in closing
    /\ closing' = closing \ {<<"connection", id>>}
    /\ connections' = connections \ {id}
    /\ UNCHANGED <<processes, timers, fileHandles, lastCall>>

\* unregisterConnection(id) with an id that is not in the map: the body is skipped
unregisterConnectionAbsent(id) ==
    /\ id \notin connections
    /\ UNCHANGED ledgerVars

registerFileHandle(id) ==
    IF Cardinality(fileHandles) >= limits.maxFileHandles
    THEN /\ lastCall' = Outcome("registerFileHandle", Cardinality(fileHandles),
                                limits.maxFileHandles, "Error", Cardinality(fileHandles))
         /\ UNCHANGED <<processes, timers, connections, fileHandles, closing>>
    ELSE /\ fileHandles' = fileHandles \cup {id}
         /\ lastCall' = Outcome("registerFileHandle", Cardinality(fileHandles),
                                limits.maxFileHandles, "none", Cardinality(fileHandles'))
         /\ UNCHANGED <<processes, timers, connections, closing>>

unregisterFileHandle(id) ==
    /\ id \in fileHandles
    /\ Cardinality(closing) < MaxClosing
    /\ closing' = closing \cup {<<"fileHandle", id>>}
    /\ UNCHANGED <<processes, timers, connections, fileHandles, lastCall>>

unregisterFileHandleResume(id) ==
    /\ <<"fileHandle", id>> \in closing
    /\ closing' = closing \ {<<"fileHandle", id>>}
    /\ fileHandles' = fileHandles \ {id}
    /\ UNCHANGED <<processes, timers, connections, lastCall>>

\* the pool before construction (the state of the pool in the other specifications)
PoolIdle ==
    /\ minSize = 0
    /\ maxSize = 0
    /\ available = <<>>
    /\ inUse = <<>>
    /\ warmup = <<>>
    /\ warmupDone = TRUE
    /\ callers = <<>>
    /\ drainPc = "idle"
    /\ nextConn = 0
    /\ nextId = 0
    /\ destroyed = {}
    /\ closed = {}
    /\ draining = {}
    /\ staleRelease = FALSE

\* no breaker created (the state of the breaker in the other specifications)
BreakerIdle ==
    /\ threshold = 0
    /\ timeout = 0
    /\ resetTimeout = 0
    /\ failures = 0
    /\ lastFailureTime = 0
    /\ state = "closed"
    /\ calls = <<>>
    /\ streak = 0

\* no limiter constructed (the state of the limiter in the other specifications)
LimiterIdle ==
    /\ windowMs = 0
    /\ maxRequests = 0
    /\ requests = <<>>
    /\ history = <<>>

\* retry() not called (the state of retry in the other specifications)
RetryIdle ==
    /\ maxAttempts = 0
    /\ onRetry = FALSE
    /\ attempt = 0
    /\ retryPc = "idle"
    /\ invoked = 0
    /\ thrown = <<>>
    /\ onRetryCalls = <<>>
    /\ slept = <<>>
    /\ retryResult = [kind |-> "none"]

\* no operation recorded (the state of the collector in the other specifications)
MetricsIdle ==
    /\ operationStats = <<>>
    /\ recorded = <<>>

\* cleanup() not called
CleanupIdle ==
    /\ cleanupPc = "idle"
    /\ cleanupPending = {}
    /\ teardownFailed = FALSE

\* no tool constructed
ToolIdle ==
    /\ toolTimeout = 0
    /\ executions = <<>>
    /\ completed = 0
    /\ lastResult = "none"

\* no child process spawned
ChildIdle ==
    /\ children = <<>>
    /\ processOf = <<>>
    /\ graceTimers = {}

\* no function wrapped
WrapIdle == wrapped = <<>>

\* no overload detected
PressureIdle ==
    /\ pressureTimers = <<>>
    /\ emitted = <<>>

\* the recovery system before it is constructed
RecoveryIdle ==
    /\ isRecovering = FALSE
    /\ lastRecoveryTime = 0
    /\ recoveryAttempts = 0
    /\ recoveries = <<>>
    /\ lastAttempt = [reason |-> "none"]
    /\ recoveryStarts = 0
    /\ failedInRow = 0
    /\ shutdownRequests = 0
    /\ exitTimers = <<>>
    /\ processExited = FALSE

RuntimeIdle == ToolIdle /\ ChildIdle /\ WrapIdle /\ PressureIdle /\ RecoveryIdle

LedgerInit ==
    /\ processes = {}
    /\ timers = {}
    /\ connections = {}
    /\ fileHandles = {}
    /\ closing = {}
    /\ lastCall = NoCall

\* a step of the ledger alone: the exploration bound, and nothing else changes
LedgerFrame ==
    /\ Loaded(processes', timers', connections', fileHandles')
    /\ UNCHANGED <<poolVars, breakerVars, limiterVars, retryVars, metricsVars,
                   cleanupVars, runtimeVars, now>>

LedgerNext ==
    \/ \E id \in RegisterIds(processes) : registerProcess(id) /\ LedgerFrame
    \/ \E id \in UnregisterIds(processes) : unregisterProcess(id) /\ LedgerFrame
    \/ \E id \in UnregisterIds(processes) : ProcessExit(id) /\ LedgerFrame
    \/ \E id \in RegisterIds(timers) : registerTimer(id) /\ LedgerFrame
    \/ \E id \in UnregisterIds(timers) : unregisterTimer(id) /\ LedgerFrame
    \/ \E id \in RegisterIds(connections) : registerConnection(id) /\ LedgerFrame
    \/ \E id \in AsyncUnregisterIds(connections) : unregisterConnection(id) /\ LedgerFrame
    \/ \E id \in connections : unregisterConnectionResume(id) /\ LedgerFrame
    \/ \E id \in RegisterIds(fileHandles) : registerFileHandle(id) /\ LedgerFrame
    \/ \E id \in AsyncUnregisterIds(fileHandles) : unregisterFileHandle(id) /\ LedgerFrame
    \/ \E id \in fileHandles : unregisterFileHandleResume(id) /\ LedgerFrame

InitLedger ==
    /\ LedgerInit /\ PoolIdle /\ BreakerIdle /\ LimiterIdle
    /\ RetryIdle /\ MetricsIdle /\ CleanupIdle /\ RuntimeIdle /\ now = 0

SpecLedger == InitLedger /\ [][LedgerNext]_vars

(***************************************************************************)
(* ResourceManager.cleanup                                                 *)
(***************************************************************************)
\* a cleanup() whose kill loop has no try/catch: a throwing kill() rejects cleanup()
ResourceManagerCleanupUncaught(killThrows) ==
    /\ cleanupPc \in {"idle", "resolved"}
    /\ killThrows => processes # {}
    /\ teardownFailed' = killThrows
    /\ IF killThrows
       THEN /\ cleanupPc' = "rejected"
            /\ cleanupPending' = {}
       ELSE /\ cleanupPc' = "connections"
            /\ cleanupPending' = connections
    /\ UNCHANGED ledgerVars

\* cleanup() up to its first await: SIGTERM to every process (a kill() that throws is
\* caught and logged), clearTimeout on every timer, then unregisterConnection(id)
\* is called for every connection id and each call suspends in close()
ResourceManagerCleanup(killThrows) ==
    /\ cleanupPc \in {"idle", "resolved"}
    /\ killThrows => processes # {}
    /\ teardownFailed' = killThrows
    /\ cleanupPc' = "connections"
    /\ cleanupPending' = connections
    /\ UNCHANGED ledgerVars

\* close() of a connection settles (ok: resolved, ~ok: threw or rejected, which
\* unregisterConnection catches and logs): the entry is deleted
CleanupConnectionSettle(id, ok) ==
    /\ cleanupPc = "connections"
    /\ id \in cleanupPending
    /\ cleanupPending' = cleanupPending \ {id}
    /\ connections' = connections \ {id}
    /\ teardownFailed' = (teardownFailed \/ ~ok)
    /\ UNCHANGED <<processes, timers, fileHandles, closing, lastCall, cleanupPc>>

\* Promise.allSettled over the connections has resolved: unregisterFileHandle(id) is
\* called for every file handle id and each call suspends in close()
CleanupFileHandles ==
    /\ cleanupPc = "connections"
    /\ cleanupPending = {}
    /\ cleanupPc' = "fileHandles"
    /\ cleanupPending' = fileHandles
    /\ UNCHANGED teardownFailed
    /\ UNCHANGED ledgerVars

CleanupFileHandleSettle(id, ok) ==
    /\ cleanupPc = "fileHandles"
    /\ id \in cleanupPending
    /\ cleanupPending' = cleanupPending \ {id}
    /\ fileHandles' = fileHandles \ {id}
    /\ teardownFailed' = (teardownFailed \/ ~ok)
    /\ UNCHANGED <<processes, timers, connections, closing, lastCall, cleanupPc>>

\* Promise.allSettled over the file handles has resolved: the four maps are cleared
\* and cleanup() resolves
CleanupClear ==
    /\ cleanupPc = "fileHandles"
    /\ cleanupPending = {}
    /\ processes' = {}
    /\ timers' = {}
    /\ connections' = {}
    /\ fileHandles' = {}
    /\ cleanupPc' = "resolved"
    /\ UNCHANGED <<closing, lastCall, cleanupPending, teardownFailed>>

\* nothing but the ledger changes
CleanupFrame ==
    UNCHANGED <<poolVars, breakerVars, limiterVars, retryVars, metricsVars,
                runtimeVars, now>>

\* the register / unregister calls other code makes while cleanup() is suspended
CleanupNext ==
    \/ \E id \in 1..MaxEntries :
          registerProcess(id) /\ UNCHANGED cleanupVars /\ CleanupFrame
    \/ \E id \in 1..MaxEntries :
          unregisterProcess(id) /\ UNCHANGED cleanupVars /\ CleanupFrame
    \/ \E id \in 1..MaxEntries : ProcessExit(id) /\ UNCHANGED cleanupVars /\ CleanupFrame
    \/ \E id \in 1..MaxEntries : registerTimer(id) /\ UNCHANGED cleanupVars /\ CleanupFrame
    \/ \E id \in 1..MaxEntries :
          unregisterTimer(id) /\ UNCHANGED cleanupVars /\ CleanupFrame
    \/ \E id \in 1..MaxEntries :
          registerConnection(id) /\ UNCHANGED cleanupVars /\ CleanupFrame
    \/ \E id \in 1..MaxEntries :
          registerFileHandle(id) /\ UNCHANGED cleanupVars /\ CleanupFrame
    \/ \E killThrows \in BOOLEAN : ResourceManagerCleanup(killThrows) /\ CleanupFrame
    \/ \E id \in 1..MaxEntries, ok \in BOOLEAN :
          CleanupConnectionSettle(id, ok) /\ CleanupFrame
    \/ CleanupFileHandles /\ CleanupFrame
    \/ \E id \in 1..MaxEntries, ok \in BOOLEAN :
          CleanupFileHandleSettle(id, ok) /\ CleanupFrame
    \/ CleanupClear /\ CleanupFrame

InitCleanup ==
    /\ LedgerInit /\ PoolIdle /\ BreakerIdle /\ LimiterIdle
    /\ RetryIdle /\ MetricsIdle /\ CleanupIdle /\ RuntimeIdle /\ now = 0

SpecCleanup == InitCleanup /\ [][CleanupNext]_vars


(***************************************************************************)
(* ConnectionPool                                                          *)
(***************************************************************************)
MapSet(m, k, v) == [i \in DOMAIN m \cup {k} |-> IF i = k THEN v ELSE m[i]]
MapDelete(m, k) == [i \in DOMAIN m \ {k} |-> m[i]]
Front(q) == SubSeq(q, 1, Len(q) - 1)
Last(q) == q[Len(q)]
Range(q) == {q[i] : i \in DOMAIN q}

\* The consumers of the pool are interchangeable: a consumer is known to the pool
\* only by the call it has in flight and the id it holds. The calls in flight are
\* kept in one order (by position in the call, then by id), so that two states that
\* differ only in which consumer makes which call are one state.
pcRank(pc) ==
    CASE pc = "idle" -> 0 [] pc = "waiting" -> 1 [] pc = "creating" -> 2
      [] pc = "holding" -> 3 [] pc = "closing" -> 4 [] pc = "destroying" -> 5
CallerKey(r) == pcRank(r.pc) * (MaxIds + 1) + r.id
Canon(cs) == SortSeq(cs, LAMBDA a, b : CallerKey(a) < CallerKey(b))

\* the option defaults of the constructor: options.minSize || 2, options.maxSize || 10
DefaultSize(option, default) == IF option = 0 THEN default ELSE option

\* new ConnectionPool(options): initialize() runs up to its await, so the minSize
\* createConnection() calls are pending when the constructor returns
PoolInit ==
    /\ \E minOpt \in 0..MaxPoolSize, maxOpt \in 1..MaxPoolSize :
          /\ minSize = DefaultSize(minOpt, 2)
          /\ maxSize = DefaultSize(maxOpt, 10)
          /\ minSize <= maxSize
    /\ available = <<>>
    /\ inUse = <<>>
    /\ warmup = [i \in 1..minSize |-> [status |-> "pending", value |-> 0]]
    /\ warmupDone = FALSE
    /\ callers = [c \in 1..NumCallers |-> [pc |-> "idle", id |-> 0]]
    /\ drainPc = "idle"
    /\ nextConn = 0
    /\ nextId = 0
    /\ destroyed = {}
    /\ closed = {}
    /\ draining = {}
    /\ staleRelease = FALSE

\* createFn() of initialize() settles: it resolves with a new connection or rejects
WarmupCreateSettle(i, ok) ==
    /\ i \in DOMAIN warmup
    /\ warmup[i].status = "pending"
    \* the order in which the promises settle is not observable: they settle in
    \* index order
    /\ \A j \in 1..(i - 1) : warmup[j].status # "pending"
    /\ IF ok
       THEN /\ nextConn < MaxConns
            /\ nextConn' = nextConn + 1
            /\ warmup' = [warmup EXCEPT ![i] = [status |-> "fulfilled", value |-> nextConn + 1]]
       ELSE /\ warmup' = [warmup EXCEPT ![i] = [status |-> "rejected", value |-> 0]]
            /\ UNCHANGED nextConn
    /\ UNCHANGED <<minSize, maxSize, available, inUse, warmupDone, callers, drainPc, nextId>>
    /\ UNCHANGED <<destroyed, closed, draining, staleRelease>>
    /\ UNCHANGED <<breakerVars, limiterVars, retryVars, metricsVars, cleanupVars, runtimeVars, now>>
    /\ UNCHANGED ledgerVars

\* the fulfilled results of initialize(), in order
RECURSIVE Fulfilled(_, _)
Fulfilled(results, i) ==
    IF i > Len(results) THEN <<>>
    ELSE (IF results[i].status = "fulfilled" THEN <<results[i].value>> ELSE <<>>)
             \o Fulfilled(results, i + 1)

\* initialize() resumes after Promise.allSettled and pushes every fulfilled value
initialize ==
    /\ ~warmupDone
    /\ \A i \in DOMAIN warmup : warmup[i].status # "pending"
    /\ available' = available \o Fulfilled(warmup, 1)
    /\ warmupDone' = TRUE
    /\ warmup' = <<>>          \* the results are not used again
    /\ UNCHANGED <<minSize, maxSize, inUse, callers, drainPc, nextConn, nextId>>
    /\ UNCHANGED <<destroyed, closed, draining, staleRelease>>
    /\ UNCHANGED <<breakerVars, limiterVars, retryVars, metricsVars, cleanupVars, runtimeVars, now>>
    /\ UNCHANGED ledgerVars

\* the end of acquire(): inUse.set(id, connection), then
\* resourceManager.registerConnection(id, connection), which may throw
AcquireTake(c, conn) ==
    /\ nextId < MaxIds
    /\ nextId' = nextId + 1
    /\ inUse' = MapSet(inUse, nextId + 1, conn)
    /\ registerConnection(nextId + 1)
    /\ callers' = Canon([callers EXCEPT ![c] =
          [pc |-> IF lastCall'.error = "none" THEN "holding" ELSE "idle",
           id |-> IF lastCall'.error = "none" THEN nextId + 1 ELSE 0]])

\* an acquire() that waits at capacity without polling again
acquireOnce(c) ==
    /\ callers[c].pc = "idle"
    /\ IF available # <<>>
       THEN /\ available' = Front(available)
            /\ AcquireTake(c, Last(available))
       ELSE /\ callers' = Canon([callers EXCEPT ![c].pc =
                    IF Cardinality(DOMAIN inUse) < maxSize THEN "creating" ELSE "waiting"])
            /\ UNCHANGED <<available, inUse, nextId>>
            /\ UNCHANGED ledgerVars
    /\ UNCHANGED <<minSize, maxSize, warmup, warmupDone, drainPc, nextConn>>
    /\ UNCHANGED <<destroyed, closed, draining, staleRelease>>
    /\ UNCHANGED <<breakerVars, limiterVars, retryVars, metricsVars, cleanupVars, runtimeVars, now>>

\* acquire() up to its first await (also the retry that follows the 100 ms wait).
\* The id `conn_${Date.now()}_${Math.random()}` is unique; the model numbers the ids
\* when they are stored.
acquire(c) ==
    /\ callers[c].pc \in {"idle", "waiting"}
    /\ IF available # <<>>
       THEN /\ available' = Front(available)
            /\ AcquireTake(c, Last(available))
       ELSE /\ IF Cardinality(DOMAIN inUse) < maxSize
               THEN callers' = Canon([callers EXCEPT ![c].pc = "creating"])
               ELSE /\ callers[c].pc = "idle"
                    /\ callers' = Canon([callers EXCEPT ![c].pc = "waiting"])
            /\ UNCHANGED <<available, inUse, nextId>>
            /\ UNCHANGED ledgerVars
    /\ UNCHANGED <<minSize, maxSize, warmup, warmupDone, drainPc, nextConn>>
    /\ UNCHANGED <<destroyed, closed, draining, staleRelease>>
    /\ UNCHANGED <<breakerVars, limiterVars, retryVars, metricsVars, cleanupVars, runtimeVars, now>>

\* createConnection() of acquire() settles
AcquireCreateSettle(c, ok) ==
    /\ callers[c].pc = "creating"
    /\ IF ok
       THEN /\ nextConn < MaxConns
            /\ nextConn' = nextConn + 1
            /\ AcquireTake(c, nextConn + 1)
       ELSE /\ callers' = Canon([callers EXCEPT ![c].pc = "idle"])
            /\ UNCHANGED <<inUse, nextConn, nextId>>
            /\ UNCHANGED ledgerVars
    /\ UNCHANGED <<minSize, maxSize, available, warmup, warmupDone, drainPc>>
    /\ UNCHANGED <<destroyed, closed, draining, staleRelease>>
    /\ UNCHANGED <<breakerVars, limiterVars, retryVars, metricsVars, cleanupVars, runtimeVars, now>>

\* release(id) up to its first await, by the consumer that holds id. With room in
\* available the entry is pushed and unregisterConnection(id) calls close() (or
\* end() / disconnect()) on it; otherwise destroyFn is called on it. When the ledger
\* no longer has the id, unregisterConnection(id) does nothing and release() resolves.
release(c) ==
    /\ callers[c].pc = "holding"
    /\ callers[c].id \in DOMAIN inUse
    /\ inUse' = MapDelete(inUse, callers[c].id)
    /\ IF Len(available) < maxSize
       THEN /\ available' = Append(available, inUse[callers[c].id])
            /\ IF callers[c].id \in connections
               THEN /\ unregisterConnection(callers[c].id)
                    /\ closed' = closed \cup {inUse[callers[c].id]}
                    /\ callers' = Canon([callers EXCEPT ![c].pc = "closing"])
               ELSE /\ unregisterConnectionAbsent(callers[c].id)
                    /\ callers' = Canon([callers EXCEPT ![c] = [pc |-> "idle", id |-> 0]])
                    /\ UNCHANGED closed
            /\ UNCHANGED destroyed
       ELSE /\ callers' = Canon([callers EXCEPT ![c].pc = "destroying"])
            \* destroyFn(connection): the entry has left the pool
            /\ destroyed' = destroyed \ {inUse[callers[c].id]}
            /\ closed' = closed \ {inUse[callers[c].id]}
            /\ UNCHANGED available
            /\ UNCHANGED ledgerVars
    /\ UNCHANGED <<minSize, maxSize, warmup, warmupDone, drainPc, nextConn, nextId>>
    /\ UNCHANGED <<draining, staleRelease>>
    /\ UNCHANGED <<breakerVars, limiterVars, retryVars, metricsVars, cleanupVars, runtimeVars, now>>

\* destroyFn(connection) of release() settles; a rejection rejects release(), and
\* unregisterConnection(id) does nothing when the ledger no longer has the id
ReleaseDestroySettle(c, ok) ==
    /\ callers[c].pc = "destroying"
    /\ IF ok /\ callers[c].id \in connections
       THEN /\ unregisterConnection(callers[c].id)
            /\ callers' = Canon([callers EXCEPT ![c].pc = "closing"])
       ELSE /\ callers' = Canon([callers EXCEPT ![c] = [pc |-> "idle", id |-> 0]])
            /\ UNCHANGED ledgerVars
    /\ UNCHANGED <<minSize, maxSize, available, inUse, warmup, warmupDone, drainPc,
                   nextConn, nextId>>
    /\ UNCHANGED <<destroyed, closed, draining, staleRelease>>
    /\ UNCHANGED <<breakerVars, limiterVars, retryVars, metricsVars, cleanupVars, runtimeVars, now>>

\* unregisterConnection(id) of release() resumes and deletes the ledger entry
ReleaseUnregistered(c) ==
    /\ callers[c].pc = "closing"
    /\ unregisterConnectionResume(callers[c].id)
    /\ callers' = Canon([callers EXCEPT ![c] = [pc |-> "idle", id |-> 0]])
    /\ UNCHANGED <<minSize, maxSize, available, inUse, warmup, warmupDone, drainPc,
                   nextConn, nextId>>
    /\ UNCHANGED <<destroyed, closed, draining, staleRelease>>
    /\ UNCHANGED <<breakerVars, limiterVars, retryVars, metricsVars, cleanupVars, runtimeVars, now>>

\* The ids release() is called with that are not in inUse: 0 stands for an id that
\* acquire() never returned, the other is the oldest id that was released already.
UnknownIds ==
    LET stale == (1..nextId) \ DOMAIN inUse
    IN {0} \cup (IF stale = {} THEN {} ELSE {Min(stale)})

\* a release() without its if (connection) test: inUse.get(id) is undefined, and
\* undefined (0) is pushed to available
releaseUnguarded(id) ==
    /\ id \in UnknownIds
    /\ Len(available) < maxSize
    /\ available' = Append(available, 0)
    /\ staleRelease' = TRUE
    /\ UNCHANGED <<minSize, maxSize, inUse, warmup, warmupDone, callers, drainPc,
                   nextConn, nextId, destroyed, closed, draining>>
    /\ UNCHANGED <<breakerVars, limiterVars, retryVars, metricsVars, cleanupVars, runtimeVars, now>>
    /\ UNCHANGED ledgerVars

\* release(id) with an id that is not in inUse: an id acquire() never returned (0)
\* or an id that has been released already. inUse.get(id) is undefined and the
\* body of release() is skipped.
releaseUnknown(id) ==
    /\ id \in UnknownIds
    /\ staleRelease' = TRUE
    /\ UNCHANGED <<minSize, maxSize, available, inUse, warmup, warmupDone, callers,
                   drainPc, nextConn, nextId, destroyed, closed, draining>>
    /\ UNCHANGED <<breakerVars, limiterVars, retryVars, metricsVars, cleanupVars, runtimeVars, now>>
    /\ UNCHANGED ledgerVars

\* drain(): the wait loop (entered at the call and at every 100 ms poll); once inUse
\* is empty destroyFn is called on every available entry
drain ==
    /\ drainPc \in {"idle", "waiting"}
    /\ drainPc' = IF Cardinality(DOMAIN inUse) > 0 THEN "waiting" ELSE "destroying"
    /\ drainPc' # drainPc
    /\ IF Cardinality(DOMAIN inUse) > 0
       THEN UNCHANGED <<destroyed, draining>>
       ELSE /\ draining' = Range(available)
            /\ destroyed' = destroyed \cup Range(available)
    /\ UNCHANGED <<minSize, maxSize, available, inUse, warmup, warmupDone, callers,
                   nextConn, nextId, closed, staleRelease>>
    /\ UNCHANGED <<breakerVars, limiterVars, retryVars, metricsVars, cleanupVars, runtimeVars, now>>
    /\ UNCHANGED ledgerVars

\* drain() resumes after Promise.allSettled: this.available = []
DrainResume ==
    /\ drainPc = "destroying"
    /\ available' = <<>>
    /\ drainPc' = "idle"
    /\ draining' = {}
    \* the dropped entries are no longer pooled
    /\ destroyed' = destroyed \ Range(available)
    /\ closed' = closed \ Range(available)
    /\ UNCHANGED <<minSize, maxSize, inUse, warmup, warmupDone, callers, nextConn, nextId>>
    /\ UNCHANGED staleRelease
    /\ UNCHANGED <<breakerVars, limiterVars, retryVars, metricsVars, cleanupVars, runtimeVars, now>>
    /\ UNCHANGED ledgerVars

PoolNext ==
    \/ \E i \in 1..MaxPoolSize, ok \in BOOLEAN : WarmupCreateSettle(i, ok)
    \/ initialize
    \/ \E c \in 1..NumCallers : acquire(c)
    \/ \E c \in 1..NumCallers, ok \in BOOLEAN : AcquireCreateSettle(c, ok)
    \/ \E c \in 1..NumCallers : release(c)
    \/ \E c \in 1..NumCallers, ok \in BOOLEAN : ReleaseDestroySettle(c, ok)
    \/ \E c \in 1..NumCallers : ReleaseUnregistered(c)
    \/ \E id \in UnknownIds : releaseUnknown(id)
    \/ drain
    \/ DrainResume

InitPool ==
    /\ LedgerInit /\ PoolInit /\ BreakerIdle /\ LimiterIdle
    /\ RetryIdle /\ MetricsIdle /\ CleanupIdle /\ RuntimeIdle /\ now = 0

SpecPool == InitPool /\ [][PoolNext]_vars

\* the 100 ms timer of a waiting acquire() fires and the call polls again
AcquireRetry == \E c \in 1..NumCallers : callers[c].pc = "waiting" /\ acquire(c)

\* the pool with its timers: a poll that stays possible is eventually made
SpecPoolFair == InitPool /\ [][PoolNext]_vars /\ WF_vars(AcquireRetry)

(***************************************************************************)
(* ConnectionPool with ResourceManager.cleanup() run by a recovery action  *)
(***************************************************************************)
\* resourceManager.cleanup() called by performAggressiveCleanup() or
\* handleMemoryLeak() while the pool is in use. Up to its first await cleanup()
\* calls unregisterConnection(id) for every id of the ledger, and each call calls
\* close() on the connection stored under the id: the connection acquire()
\* registered, which is the one inUse holds under the same id.
performAggressiveCleanup ==
    /\ ResourceManagerCleanup(FALSE)
    /\ closed' = closed \cup {inUse[id] : id \in connections \cap DOMAIN inUse}
    /\ UNCHANGED <<minSize, maxSize, available, inUse, warmup, warmupDone, callers,
                   drainPc, nextConn, nextId, destroyed, draining, staleRelease>>
    /\ UNCHANGED <<breakerVars, limiterVars, retryVars, metricsVars, runtimeVars, now>>

PoolRecoveryNext ==
    \/ \E i \in 1..MaxPoolSize, ok \in BOOLEAN : WarmupCreateSettle(i, ok)
    \/ initialize
    \/ \E c \in 1..NumCallers : acquire(c)
    \/ \E c \in 1..NumCallers, ok \in BOOLEAN : AcquireCreateSettle(c, ok)
    \/ \E c \in 1..NumCallers : release(c)
    \/ \E c \in 1..NumCallers, ok \in BOOLEAN : ReleaseDestroySettle(c, ok)
    \/ \E c \in 1..NumCallers : ReleaseUnregistered(c)
    \/ drain
    \/ DrainResume
    \/ performAggressiveCleanup
    \/ \E id \in 1..MaxIds, ok \in BOOLEAN : CleanupConnectionSettle(id, ok) /\ CleanupFrame
    \/ CleanupFileHandles /\ CleanupFrame
    \/ CleanupClear /\ CleanupFrame

InitPoolRecovery ==
    /\ LedgerInit /\ PoolInit /\ BreakerIdle /\ LimiterIdle
    /\ RetryIdle /\ MetricsIdle /\ CleanupIdle /\ RuntimeIdle /\ now = 0

SpecPoolRecovery == InitPoolRecovery /\ [][PoolRecoveryNext]_vars

(***************************************************************************)
(* ConnectionPool next to other consumers that fill the ledger             *)
(***************************************************************************)
\* The ledger is one singleton for the whole server: the tools register their own
\* connections with it, so a pool finds the connections map filled by others. The
\* ids of the other consumers lie above the ids the pool gives out.
OtherIds(n) == {MaxIds + j : j \in 1..n}

\* the ledger when the pool is constructed: n registerConnection calls of other
\* consumers have succeeded
LedgerLoaded(n) ==
    /\ processes = {}
    /\ timers = {}
    /\ connections = OtherIds(n)
    /\ fileHandles = {}
    /\ closing = {}
    /\ lastCall = NoCall

\* another consumer calls resourceManager.registerConnection with an id of its own
OtherRegisterConnection ==
    /\ registerConnection(Min(OtherIds(limits.maxConnections + 1) \ connections))
    /\ UNCHANGED <<poolVars, breakerVars, limiterVars, retryVars, metricsVars,
                   cleanupVars, runtimeVars, now>>

PoolAtCapNext ==
    \/ \E i \in 1..MaxPoolSize, ok \in BOOLEAN : WarmupCreateSettle(i, ok)
    \/ initialize
    \/ \E c \in 1..NumCallers : acquire(c)
    \/ \E c \in 1..NumCallers, ok \in BOOLEAN : AcquireCreateSettle(c, ok)
    \/ \E c \in 1..NumCallers : release(c)
    \/ \E c \in 1..NumCallers, ok \in BOOLEAN : ReleaseDestroySettle(c, ok)
    \/ \E c \in 1..NumCallers : ReleaseUnregistered(c)
    \/ drain
    \/ DrainResume
    \/ OtherRegisterConnection

InitPoolAtCap ==
    /\ \E n \in {limits.maxConnections - 2, limits.maxConnections - 1} : LedgerLoaded(n)
    /\ PoolInit /\ BreakerIdle /\ LimiterIdle
    /\ RetryIdle /\ MetricsIdle /\ CleanupIdle /\ RuntimeIdle /\ now = 0

SpecPoolAtCap == InitPoolAtCap /\ [][PoolAtCapNext]_vars

(***************************************************************************)
(* ErrorHandler.createCircuitBreaker                                       *)
(***************************************************************************)
\* createCircuitBreaker(fn, {threshold, timeout, resetTimeout})
BreakerInit ==
    /\ threshold \in 1..MaxThreshold
    /\ resetTimeout \in 1..MaxResetTimeout
    /\ timeout \in {1, resetTimeout + 2}      \* shorter and longer than resetTimeout
    /\ failures = 0
    /\ lastFailureTime = 0
    /\ state = "closed"
    /\ calls = <<>>
    /\ streak = 0

\* state === 'open' && Date.now() - lastFailureTime > resetTimeout
ResetDue(t) == state = "open" /\ t - lastFailureTime > resetTimeout

\* failures > threshold instead of >=
TrippedAbove(f) == f > threshold

\* failures >= threshold
Tripped(f) == f >= threshold

\* the time since the last failure, compared with resetTimeout
Waited(t) ==
    IF t - lastFailureTime < resetTimeout THEN "less"
    ELSE IF t - lastFailureTime = resetTimeout THEN "equal" ELSE "more"

\* the wrapped function up to its await: the reset check, the fail-fast throw,
\* and the start of the race between fn(...args) and the timeout timer
BreakerCall ==
    /\ Len(calls) < MaxCalls
    /\ state' = IF ResetDue(now) THEN "half-open" ELSE state
    /\ failures' = IF ResetDue(now) THEN 0 ELSE failures
    /\ calls' = Append(calls,
          [status  |-> IF state' = "open" THEN "rejected" ELSE "running",
           invoked |-> state' # "open",
           error   |-> IF state' = "open" THEN "Error" ELSE "none",
           start   |-> IF state' = "open" THEN 0 ELSE now,
           before  |-> state,
           waited  |-> IF state # "open" THEN "-" ELSE Waited(now)])
    /\ UNCHANGED <<threshold, timeout, resetTimeout, lastFailureTime, streak, now>>
    /\ UNCHANGED <<ledgerVars, poolVars, limiterVars, retryVars, metricsVars, cleanupVars, runtimeVars>>

\* a success path that leaves a half-open breaker half-open
SettleSuccessStay(i) ==
    /\ i \in DOMAIN calls
    /\ calls[i].status = "running"
    /\ state' = state
    /\ failures' = 0
    /\ streak' = 0
    /\ calls' = [calls EXCEPT ![i].status = "resolved", ![i].start = 0]
    /\ UNCHANGED <<threshold, timeout, resetTimeout, lastFailureTime, now>>
    /\ UNCHANGED <<ledgerVars, poolVars, limiterVars, retryVars, metricsVars, cleanupVars, runtimeVars>>

\* fn(...args) wins the race with a value: the success path
SettleSuccess(i) ==
    /\ i \in DOMAIN calls
    /\ calls[i].status = "running"
    /\ state' = IF state = "half-open" THEN "closed" ELSE state
    /\ failures' = 0
    /\ streak' = 0
    /\ calls' = [calls EXCEPT ![i].status = "resolved", ![i].start = 0]
    /\ UNCHANGED <<threshold, timeout, resetTimeout, lastFailureTime, now>>
    /\ UNCHANGED <<ledgerVars, poolVars, limiterVars, retryVars, metricsVars, cleanupVars, runtimeVars>>

\* a catch block that opens the breaker without comparing failures with threshold
SettleFailureOpens(i, error) ==
    /\ i \in DOMAIN calls
    /\ calls[i].status = "running"
    /\ error = "TimeoutError" => now - calls[i].start >= timeout
    /\ failures' = failures + 1
    /\ lastFailureTime' = now
    /\ state' = "open"
    /\ streak' = streak + 1
    /\ calls' = [calls EXCEPT ![i].status = "rejected", ![i].error = error,
                              ![i].start = 0]
    /\ UNCHANGED <<threshold, timeout, resetTimeout, now>>
    /\ UNCHANGED <<ledgerVars, poolVars, limiterVars, retryVars, metricsVars, cleanupVars, runtimeVars>>

\* the catch block: fn rejected ("FnError") or the timer fired ("TimeoutError")
SettleFailure(i, error) ==
    /\ i \in DOMAIN calls
    /\ calls[i].status = "running"
    /\ error = "TimeoutError" => now - calls[i].start >= timeout
    /\ failures' = failures + 1
    /\ lastFailureTime' = now
    /\ state' = IF Tripped(failures') THEN "open" ELSE state
    /\ streak' = streak + 1
    /\ calls' = [calls EXCEPT ![i].status = "rejected", ![i].error = error,
                              ![i].start = 0]
    /\ UNCHANGED <<threshold, timeout, resetTimeout, now>>
    /\ UNCHANGED <<ledgerVars, poolVars, limiterVars, retryVars, metricsVars, cleanupVars, runtimeVars>>

\* time passes; the timer of a running call fires no later than start + timeout
BreakerTick ==
    /\ now < MaxTime
    /\ \A i \in DOMAIN calls :
          calls[i].status = "running" => now - calls[i].start < timeout
    /\ now' = now + 1
    /\ UNCHANGED breakerVars
    /\ UNCHANGED <<ledgerVars, poolVars, limiterVars, retryVars, metricsVars, cleanupVars, runtimeVars>>

BreakerNext ==
    \/ BreakerCall
    \/ \E i \in 1..MaxCalls : SettleSuccess(i)
    \/ \E i \in 1..MaxCalls, error \in {"FnError", "TimeoutError"} : SettleFailure(i, error)
    \/ BreakerTick

InitBreaker ==
    /\ LedgerInit /\ PoolIdle /\ BreakerInit /\ LimiterIdle
    /\ RetryIdle /\ MetricsIdle /\ CleanupIdle /\ RuntimeIdle /\ now = 0

SpecBreaker == InitBreaker /\ [][BreakerNext]_vars


(***************************************************************************)
(* RateLimiter                                                             *)
(***************************************************************************)
Identifiers == 1..NumIdentifiers

\* new RateLimiter(windowMs, maxRequests)
LimiterInit ==
    /\ windowMs \in 1..MaxWindow
    /\ maxRequests \in 1..MaxQuota
    /\ requests = [id \in Identifiers |-> <<>>]
    /\ history = [id \in Identifiers |-> <<>>]

\* a filter that keeps every timestamp
AllRequests(list, t) == list

\* requests.filter(time => now - time < this.windowMs)
RecentRequests(list, t) == SelectSeq(list, LAMBDA time : t - time < windowMs)

\* recentRequests.length > this.maxRequests instead of >=
OverQuota(n) == n > maxRequests

\* recentRequests.length >= this.maxRequests
AtQuota(n) == n >= maxRequests

\* the isAllowed calls made so far, over the identifiers 1..n
RECURSIVE ChecksUpTo(_)
ChecksUpTo(n) == IF n = 0 THEN 0 ELSE Len(history[n]) + ChecksUpTo(n - 1)
TotalChecks == ChecksUpTo(NumIdentifiers)

\* an isAllowed that stores the timestamp of a rejected call as well
isAllowedCounting(identifier) ==
    /\ TotalChecks < MaxChecks
    /\ LET recentRequests == RecentRequests(requests[identifier], now)
           allowed == ~AtQuota(Len(recentRequests))
       IN /\ requests' = [requests EXCEPT ![identifier] = Append(recentRequests, now)]
          /\ history' = [history EXCEPT ![identifier] =
                Append(@, [time |-> now, allowed |-> allowed])]
    /\ UNCHANGED <<windowMs, maxRequests, now>>
    /\ UNCHANGED <<ledgerVars, poolVars, breakerVars, retryVars, metricsVars, cleanupVars, runtimeVars>>

isAllowed(identifier) ==
    /\ TotalChecks < MaxChecks
    /\ LET recentRequests == RecentRequests(requests[identifier], now)
           allowed == ~AtQuota(Len(recentRequests))
       IN /\ requests' = IF allowed
                THEN [requests EXCEPT ![identifier] = Append(recentRequests, now)]
                ELSE requests
          /\ history' = [history EXCEPT ![identifier] =
                Append(@, [time |-> now, allowed |-> allowed])]
    /\ UNCHANGED <<windowMs, maxRequests, now>>
    /\ UNCHANGED <<ledgerVars, poolVars, breakerVars, retryVars, metricsVars, cleanupVars, runtimeVars>>

\* the periodic sweep: an identifier left with no recent request is deleted
cleanup ==
    /\ requests' = [id \in Identifiers |-> RecentRequests(requests[id], now)]
    /\ requests' # requests
    /\ UNCHANGED <<windowMs, maxRequests, history, now>>
    /\ UNCHANGED <<ledgerVars, poolVars, breakerVars, retryVars, metricsVars, cleanupVars, runtimeVars>>

LimiterTick ==
    /\ now < MaxTime
    /\ now' = now + 1
    /\ UNCHANGED limiterVars
    /\ UNCHANGED <<ledgerVars, poolVars, breakerVars, retryVars, metricsVars, cleanupVars, runtimeVars>>

LimiterNext ==
    \/ \E identifier \in Identifiers : isAllowed(identifier)
    \/ cleanup
    \/ LimiterTick

InitLimiter ==
    /\ LedgerInit /\ PoolIdle /\ BreakerIdle /\ LimiterInit
    /\ RetryIdle /\ MetricsIdle /\ CleanupIdle /\ RuntimeIdle /\ now = 0

SpecLimiter == InitLimiter /\ [][LimiterNext]_vars


(***************************************************************************)
(* ErrorHandler.retry                                                      *)
(***************************************************************************)
\* the option defaults of retry()
initialDelay == 100
maxDelay == 5000
factor == 2

\* The errors operation() rejects with: the class of the error and its message.
\* Contains[m] is the set of the substrings shouldRetry() looks for that m includes.
Contains ==
    [m \in {"operation failed", "connect ECONNREFUSED 127.0.0.1:5432",
            "getaddrinfo ENOTFOUND db", "Operation 'query' timed out after 1000ms",
            "External service error (api): bad gateway", "deadlock detected",
            "connection terminated", "syntax error at or near SELECT",
            "Invalid input"} |->
        CASE m = "connect ECONNREFUSED 127.0.0.1:5432" -> {"ECONNREFUSED"}
          [] m = "getaddrinfo ENOTFOUND db" -> {"ENOTFOUND"}
          [] m = "deadlock detected" -> {"deadlock"}
          [] m = "connection terminated" -> {"connection"}
          [] OTHER -> {}]

Errors ==
    { [name |-> "Error", message |-> "operation failed"],
      [name |-> "Error", message |-> "connect ECONNREFUSED 127.0.0.1:5432"],
      [name |-> "ValidationError", message |-> "Invalid input"],
      [name |-> "TimeoutError", message |-> "Operation 'query' timed out after 1000ms"],
      [name |-> "ExternalServiceError",
       message |-> "External service error (api): bad gateway"],
      [name |-> "DatabaseError", message |-> "deadlock detected"],
      [name |-> "DatabaseError", message |-> "connection terminated"],
      [name |-> "DatabaseError", message |-> "syntax error at or near SELECT"],
      [name |-> "DatabaseError", message |-> "getaddrinfo ENOTFOUND db"] }

\* error.message.includes(needle)
includes(error, needle) == needle \in Contains[error.message]

\* a predicate that retries every error
shouldRetryAlways(error) == TRUE

shouldRetry(error) ==
    IF \/ includes(error, "ECONNREFUSED")
       \/ includes(error, "ETIMEDOUT")
       \/ includes(error, "ENOTFOUND")
    THEN TRUE
    ELSE IF error.name \in {"TimeoutError", "ExternalServiceError"}
    THEN TRUE
    ELSE IF error.name = "DatabaseError"
    THEN \/ includes(error, "deadlock")
         \/ includes(error, "timeout")
         \/ includes(error, "connection")
    ELSE FALSE

\* a test that never takes attempt for the last one
LastAttemptNever(n) == FALSE

\* attempt === maxAttempts
LastAttempt(n) == n = maxAttempts

RECURSIVE Pow(_, _)
Pow(b, e) == IF e = 0 THEN 1 ELSE b * Pow(b, e - 1)

\* Math.min(initialDelay * Math.pow(factor, attempt - 1), maxDelay)
Delay(n) == Min({initialDelay * Pow(factor, n - 1), maxDelay})

\* an onRetry call that counts the attempts from 0
onRetryCallZeroBased(error, n) == [error |-> error, attempt |-> n - 1]

\* onRetry(lastError, attempt)
onRetryCall(error, n) == [error |-> error, attempt |-> n]

\* the options of one retry(operation, {maxAttempts, onRetry}) call
RetryInit ==
    /\ maxAttempts \in 1..MaxAttempts
    /\ onRetry \in BOOLEAN
    /\ attempt = 0
    /\ retryPc = "idle"
    /\ invoked = 0
    /\ thrown = <<>>
    /\ onRetryCalls = <<>>
    /\ slept = <<>>
    /\ retryResult = [kind |-> "none"]

\* retry() up to its first await: the first operation() call
retry ==
    /\ retryPc = "idle"
    /\ attempt' = 1
    /\ invoked' = invoked + 1
    /\ retryPc' = "operation"
    /\ UNCHANGED <<maxAttempts, onRetry, thrown, onRetryCalls, slept, retryResult>>
    /\ UNCHANGED <<ledgerVars, poolVars, breakerVars, limiterVars, metricsVars,
                   cleanupVars, runtimeVars, now>>

\* operation() resolves: return await operation()
OperationResolve ==
    /\ retryPc = "operation"
    /\ retryPc' = "resolved"
    /\ retryResult' = [kind |-> "value", attempt |-> attempt]
    /\ UNCHANGED <<maxAttempts, onRetry, attempt, invoked, thrown, onRetryCalls, slept>>
    /\ UNCHANGED <<ledgerVars, poolVars, breakerVars, limiterVars, metricsVars,
                   cleanupVars, runtimeVars, now>>

\* operation() rejects: the catch block up to the await of the delay
OperationReject(e) ==
    /\ retryPc = "operation"
    /\ LET lastError == [name |-> e.name, message |-> e.message, attempt |-> attempt]
       IN /\ thrown' = Append(thrown, lastError)
          /\ IF LastAttempt(attempt) \/ ~shouldRetry(lastError)
             THEN /\ retryPc' = "rejected"
                  /\ retryResult' = [kind |-> "error", error |-> lastError]
                  /\ UNCHANGED <<onRetryCalls, slept>>
             ELSE /\ onRetryCalls' = IF onRetry
                        THEN Append(onRetryCalls, onRetryCall(lastError, attempt))
                        ELSE onRetryCalls
                  /\ slept' = Append(slept, Delay(attempt))
                  /\ retryPc' = "delay"
                  /\ UNCHANGED retryResult
    /\ UNCHANGED <<maxAttempts, onRetry, attempt, invoked>>
    /\ UNCHANGED <<ledgerVars, poolVars, breakerVars, limiterVars, metricsVars,
                   cleanupVars, runtimeVars, now>>

\* the delay has passed: attempt++, and either the next operation() call or, when
\* the loop condition fails, throw lastError
RetryWake ==
    /\ retryPc = "delay"
    /\ attempt' = attempt + 1
    /\ IF attempt + 1 <= maxAttempts
       THEN /\ invoked' = invoked + 1
            /\ retryPc' = "operation"
            /\ UNCHANGED retryResult
       ELSE /\ retryPc' = "rejected"
            /\ retryResult' = [kind |-> "error", error |-> Last(thrown)]
            /\ UNCHANGED invoked
    /\ UNCHANGED <<maxAttempts, onRetry, thrown, onRetryCalls, slept>>
    /\ UNCHANGED <<ledgerVars, poolVars, breakerVars, limiterVars, metricsVars,
                   cleanupVars, runtimeVars, now>>

RetryNext ==
    \/ retry
    \/ OperationResolve
    \/ \E e \in Errors : OperationReject(e)
    \/ RetryWake

InitRetry ==
    /\ LedgerInit /\ PoolIdle /\ BreakerIdle /\ LimiterIdle
    /\ RetryInit /\ MetricsIdle /\ CleanupIdle /\ RuntimeIdle /\ now = 0

SpecRetry == InitRetry /\ [][RetryNext]_vars


(***************************************************************************)
(* MetricsCollector.recordOperation / getOperationStats                    *)
(***************************************************************************)
\* the keys getKey(name, tags) yields, and the durations recorded (ms)
Keys == 1..NumKeys
Durations == {10 * d : d \in 0..MaxDuration}

\* Infinity, the minTime of a key with no operation; no duration is negative
Infinity == -1

\* Math.min / Math.max
MathMin(a, b) == IF a = Infinity THEN b ELSE IF b = Infinity THEN a ELSE Min({a, b})
MathMax(a, b) == Max({a, b})

RECURSIVE GCD(_, _)
GCD(a, b) == IF b = 0 THEN a ELSE GCD(b, a % b)

\* a / b (b > 0, a >= 0) as the fraction in lowest terms
Divide(a, b) == [num |-> a \div GCD(a, b), den |-> b \div GCD(a, b)]

\* initial stats whose minTime is 0
NewStatsZeroMin ==
    [count |-> 0, totalTime |-> 0, minTime |-> 0, maxTime |-> 0, errors |-> 0]

\* the stats recordOperation starts from when the key has none
NewStats ==
    [count |-> 0, totalTime |-> 0, minTime |-> Infinity, maxTime |-> 0, errors |-> 0]

MetricsInit ==
    /\ operationStats = <<>>
    /\ recorded = [key \in Keys |-> <<>>]

RECURSIVE RecordsUpTo(_)
RecordsUpTo(n) == IF n = 0 THEN 0 ELSE Len(recorded[n]) + RecordsUpTo(n - 1)

\* the map recordOperation(key, duration, error) leaves when it finds the map os
Recorded(os, key, duration, error) ==
    LET stats == IF key \in DOMAIN os THEN os[key] ELSE NewStats
    IN MapSet(os, key,
              [count     |-> stats.count + 1,
               totalTime |-> stats.totalTime + duration,
               minTime   |-> MathMin(stats.minTime, duration),
               maxTime   |-> MathMax(stats.maxTime, duration),
               errors    |-> IF error THEN stats.errors + 1 ELSE stats.errors])

recordOperation(key, duration, error) ==
    /\ RecordsUpTo(NumKeys) < MaxRecords
    /\ operationStats' = Recorded(operationStats, key, duration, error)
    /\ recorded' = [recorded EXCEPT ![key] =
                        Append(@, [duration |-> duration, error |-> error])]
    /\ UNCHANGED <<ledgerVars, poolVars, breakerVars, limiterVars, retryVars,
                   cleanupVars, runtimeVars, now>>

\* getOperationStats(name, tags): null for a key with no operation
getOperationStats(key) ==
    IF key \notin DOMAIN operationStats
    THEN [null |-> TRUE]
    ELSE LET stats == operationStats[key]
         IN [count     |-> stats.count,
             totalTime |-> stats.totalTime,
             minTime   |-> stats.minTime,
             maxTime   |-> stats.maxTime,
             errors    |-> stats.errors,
             avgTime   |-> Divide(stats.totalTime, stats.count),
             errorRate |-> Divide(stats.errors, stats.count)]

\* reset(): every store is cleared
reset ==
    /\ operationStats # <<>>
    /\ operationStats' = <<>>
    /\ recorded' = [key \in Keys |-> <<>>]
    /\ UNCHANGED <<ledgerVars, poolVars, breakerVars, limiterVars, retryVars,
                   cleanupVars, runtimeVars, now>>

MetricsNext ==
    \/ \E key \in Keys, duration \in Durations, error \in BOOLEAN :
          recordOperation(key, duration, error)
    \/ reset

InitMetrics ==
    /\ LedgerInit /\ PoolIdle /\ BreakerIdle /\ LimiterIdle
    /\ RetryIdle /\ MetricsInit /\ CleanupIdle /\ RuntimeIdle /\ now = 0

SpecMetrics == InitMetrics /\ [][MetricsNext]_vars


(***************************************************************************)
(* BaseTool.execute / executeWithTimeout                                   *)
(***************************************************************************)
\* the timer ids of one tool: `timeout_${this.name}_${Date.now()}`, one per clock value
ToolTimerId(t) == t
ToolTimerIds == {ToolTimerId(t) : t \in 0..MaxTime}
\* the ids under which other callers of resourceManager.registerTimer register
OtherTimerIds(n) == {MaxTime + j : j \in 1..n}

\* the ledger when the tool is constructed: n timers registered by other callers
LedgerTimersLoaded(n) ==
    /\ processes = {}
    /\ timers = OtherTimerIds(n)
    /\ connections = {}
    /\ fileHandles = {}
    /\ closing = {}
    /\ lastCall = NoCall

\* new Tool(options): this.timeout = options.timeout || COMMAND_TIMEOUT_MS
ToolInit ==
    /\ toolTimeout \in 1..MaxToolTimeout
    /\ executions = <<>>
    /\ completed = 0
    /\ lastResult = "none"

\* the sequence q without its i-th element
RemoveAt(q, i) == SubSeq(q, 1, i - 1) \o SubSeq(q, i + 1, Len(q))

ToolFrame ==
    UNCHANGED <<poolVars, breakerVars, limiterVars, retryVars, metricsVars, cleanupVars,
                childVars, wrapVars, pressureVars, recoveryVars>>

\* execute(args) up to the await of Promise.race. early: the rate limiter refuses the
\* call or validateInput throws, and execute() rejects before executeWithTimeout.
\* Otherwise executeWithTimeout creates the timer and registers it under the id
\* timeout_<name>_<Date.now()>; registerTimer throwing inside the promise executor
\* rejects timeoutPromise, so the race and execute() reject at once.
execute(early) ==
    /\ completed + Len(executions) < MaxExecutions
    /\ IF early
       THEN /\ completed' = completed + 1
            /\ lastResult' = "Error"
            /\ UNCHANGED <<executions, ledgerVars>>
       ELSE /\ registerTimer(ToolTimerId(now))
            /\ IF lastCall'.error = "none"
               THEN /\ executions' = Append(executions, now)
                    /\ UNCHANGED <<completed, lastResult>>
               ELSE /\ completed' = completed + 1
                    /\ lastResult' = "Error"
                    /\ UNCHANGED executions
    /\ UNCHANGED <<toolTimeout, now>>
    /\ ToolFrame

\* fn() settles first (ok: it resolves and validateOutput passes; ~ok: it rejects):
\* the race settles, the empty finally block of executeWithTimeout runs ("Cleanup
\* will happen in resource manager") and execute() settles. The timer is neither
\* cleared nor unregistered.
ExecutionSettle(i, ok) ==
    /\ i \in DOMAIN executions
    /\ executions' = RemoveAt(executions, i)
    /\ completed' = completed + 1
    /\ lastResult' = IF ok THEN "value" ELSE "Error"
    /\ UNCHANGED <<toolTimeout, now>>
    /\ UNCHANGED ledgerVars
    /\ ToolFrame

\* the timer fires first, not before timeoutMs have passed: the race rejects with
\* TimeoutError and execute() rejects; fn() is abandoned
ExecutionTimeout(i) ==
    /\ i \in DOMAIN executions
    /\ now >= executions[i] + toolTimeout
    /\ executions' = RemoveAt(executions, i)
    /\ completed' = completed + 1
    /\ lastResult' = "TimeoutError"
    /\ UNCHANGED <<toolTimeout, now>>
    /\ UNCHANGED ledgerVars
    /\ ToolFrame

ToolTick ==
    /\ now < MaxTime
    /\ now' = now + 1
    /\ UNCHANGED <<toolVars, ledgerVars>>
    /\ ToolFrame

ToolNext ==
    \/ \E early \in BOOLEAN : execute(early)
    \/ \E i \in 1..MaxExecutions, ok \in BOOLEAN : ExecutionSettle(i, ok)
    \/ \E i \in 1..MaxExecutions : ExecutionTimeout(i)
    \/ ToolTick

InitTool ==
    /\ \E n \in {0, limits.maxTimers - 1} : LedgerTimersLoaded(n)
    /\ ToolInit /\ ChildIdle /\ WrapIdle /\ PressureIdle /\ RecoveryIdle
    /\ PoolIdle /\ BreakerIdle /\ LimiterIdle
    /\ RetryIdle /\ MetricsIdle /\ CleanupIdle /\ now = 0

SpecTool == InitTool /\ [][ToolNext]_vars


(***************************************************************************)
(* ResourceManager.registerProcess / unregisterProcess and the child       *)
(* processes themselves                                                    *)
(***************************************************************************)
\* the clock of this specification counts in units of TickMs milliseconds
TickMs == 5000
\* setTimeout(..., 5000) of unregisterProcess
graceWindow == 5000 \div TickMs

\* spawn(): a running child; killed is false, no listener is attached
NewChild == [alive |-> TRUE, killed |-> FALSE, signals |-> {}, listens |-> 0]

\* child.kill(signal). While the child runs the signal is sent and child.killed
\* becomes true: killed says that a signal has been sent, not that the child has
\* terminated. After the child has exited nothing is sent and killed is unchanged.
kill(child, signal) ==
    IF child.alive
    THEN [child EXCEPT !.killed = TRUE, !.signals = @ \cup {signal}]
    ELSE child

ProcessInit ==
    /\ children = <<>>
    /\ processOf = <<>>
    /\ graceTimers = {}

ProcessFrame ==
    UNCHANGED <<poolVars, breakerVars, limiterVars, retryVars, metricsVars, cleanupVars,
                toolVars, wrapVars, pressureVars, recoveryVars>>

\* registerProcess(id, process) for a child that has just been spawned: the entry is
\* set (an entry already stored under id is overwritten) and the once('exit')
\* listener, which closes over id, is attached; at the cap the call throws before both
registerChild(id) ==
    /\ Len(children) < MaxChildren
    /\ registerProcess(id)
    /\ IF lastCall'.error = "none"
       THEN /\ children' = Append(children, [NewChild EXCEPT !.listens = id])
            /\ processOf' = MapSet(processOf, id, Len(children) + 1)
       ELSE /\ children' = Append(children, NewChild)
            /\ UNCHANGED processOf
    /\ UNCHANGED <<graceTimers, now>>
    /\ ProcessFrame

\* the body of unregisterProcess(id), run on the child objects ch: the child stored
\* under id is looked up; if its killed flag is false it is sent SIGTERM and the
\* force-kill timer is set; the entry is deleted
unregisterProcessOn(ch, id) ==
    IF id \in DOMAIN processOf
    THEN LET p == processOf[id]
         IN [children    |-> IF ch[p].killed THEN ch
                             ELSE [ch EXCEPT ![p] = kill(@, "SIGTERM")],
             graceTimers |-> IF ch[p].killed THEN graceTimers
                             ELSE graceTimers \cup
                                      {[child |-> p, due |-> now + graceWindow]},
             processOf   |-> MapDelete(processOf, id)]
    ELSE [children |-> ch, graceTimers |-> graceTimers, processOf |-> processOf]

\* unregisterProcess(id) called by the owner of the process
unregisterChild(id) ==
    /\ children' = unregisterProcessOn(children, id).children
    /\ graceTimers' = unregisterProcessOn(children, id).graceTimers
    /\ processOf' = unregisterProcessOn(children, id).processOf
    /\ unregisterProcess(id)
    /\ UNCHANGED now
    /\ ProcessFrame

\* Child p terminates (on its own, or because of a signal it received) and emits
\* 'exit'. The listener registerProcess attached, if any, runs once:
\* unregisterProcess(id) with the id the child was registered under.
ChildExit(p) ==
    /\ p \in DOMAIN children
    /\ children[p].alive
    /\ LET exited == [children EXCEPT ![p] = [@ EXCEPT !.alive = FALSE, !.listens = 0]]
           id == children[p].listens
       IN IF id = 0
          THEN /\ children' = exited
               /\ UNCHANGED <<processOf, graceTimers, ledgerVars>>
          ELSE /\ children' = unregisterProcessOn(exited, id).children
               /\ graceTimers' = unregisterProcessOn(exited, id).graceTimers
               /\ processOf' = unregisterProcessOn(exited, id).processOf
               /\ unregisterProcess(id)
    /\ UNCHANGED now
    /\ ProcessFrame

\* the force-kill timer of unregisterProcess fires, not before the grace window has
\* passed: if (!process.killed) process.kill('SIGKILL')
ForceKillTimer(t) ==
    /\ t \in graceTimers
    /\ now >= t.due
    /\ graceTimers' = graceTimers \ {t}
    /\ children' = IF children[t.child].killed THEN children
                   ELSE [children EXCEPT ![t.child] = kill(@, "SIGKILL")]
    /\ UNCHANGED <<processOf, ledgerVars, now>>
    /\ ProcessFrame

ProcessTick ==
    /\ now < MaxTime
    /\ now' = now + 1
    /\ UNCHANGED <<childVars, ledgerVars>>
    /\ ProcessFrame

ProcessNext ==
    \/ \E id \in 1..NumProcessIds : registerChild(id)
    \/ \E id \in 1..NumProcessIds : unregisterChild(id)
    \/ \E p \in 1..MaxChildren : ChildExit(p)
    \/ \E t \in graceTimers : ForceKillTimer(t)
    \/ ProcessTick

InitProcess ==
    /\ LedgerInit /\ ProcessInit /\ ToolIdle /\ WrapIdle /\ PressureIdle /\ RecoveryIdle
    /\ PoolIdle /\ BreakerIdle /\ LimiterIdle
    /\ RetryIdle /\ MetricsIdle /\ CleanupIdle /\ now = 0

SpecProcess == InitProcess /\ [][ProcessNext]_vars


(***************************************************************************)
(* withMetrics                                                             *)
(***************************************************************************)
\* withMetrics(toolName, fn) for every tool: the key of a tool is `tool.${toolName}`
WrapInit ==
    wrapped = [key \in Keys |-> [pending |-> 0, succeeded |-> 0, failed |-> 0]]

RECURSIVE WrappedCallsUpTo(_)
WrappedCallsUpTo(n) ==
    IF n = 0 THEN 0
    ELSE wrapped[n].pending + wrapped[n].succeeded + wrapped[n].failed
             + WrappedCallsUpTo(n - 1)

WrapFrame ==
    UNCHANGED <<ledgerVars, poolVars, breakerVars, limiterVars, retryVars, cleanupVars,
                toolVars, childVars, pressureVars, recoveryVars, now>>

\* the wrapper up to its await: startTimer reads the clock and fn(...args) is called
\* (the counters metrics.increment feeds are a store of their own)
WrappedCall(key) ==
    /\ WrappedCallsUpTo(NumKeys) < MaxWrappedCalls
    /\ wrapped' = [wrapped EXCEPT ![key].pending = @ + 1]
    /\ UNCHANGED metricsVars
    /\ WrapFrame

\* fn resolves after duration ms: timer() records the operation without error
WrappedResolve(key, duration) ==
    /\ wrapped[key].pending > 0
    /\ wrapped' = [wrapped EXCEPT ![key].pending = @ - 1, ![key].succeeded = @ + 1]
    /\ operationStats' = Recorded(operationStats, key, duration, FALSE)
    /\ recorded' = [recorded EXCEPT ![key] =
                        Append(@, [duration |-> duration, error |-> FALSE])]
    /\ WrapFrame

\* fn rejects after duration ms: the catch block calls timer(), which records the
\* operation without error, and then recordOperation(`tool.${toolName}`, 0, true)
WrappedReject(key, duration) ==
    /\ wrapped[key].pending > 0
    /\ wrapped' = [wrapped EXCEPT ![key].pending = @ - 1, ![key].failed = @ + 1]
    /\ operationStats' =
           Recorded(Recorded(operationStats, key, duration, FALSE), key, 0, TRUE)
    /\ recorded' = [recorded EXCEPT ![key] =
                        @ \o <<[duration |-> duration, error |-> FALSE],
                               [duration |-> 0, error |-> TRUE]>>]
    /\ WrapFrame

WrapNext ==
    \/ \E key \in Keys : WrappedCall(key)
    \/ \E key \in Keys, duration \in Durations : WrappedResolve(key, duration)
    \/ \E key \in Keys, duration \in Durations : WrappedReject(key, duration)

InitWrap ==
    /\ LedgerInit /\ PoolIdle /\ BreakerIdle /\ LimiterIdle
    /\ RetryIdle /\ MetricsInit /\ CleanupIdle
    /\ ToolIdle /\ ChildIdle /\ WrapInit /\ PressureIdle /\ RecoveryIdle /\ now = 0

SpecWrap == InitWrap /\ [][WrapNext]_vars


(***************************************************************************)
(* AutoRecoverySystem.checkSystemOverload / implementBackpressure          *)
(***************************************************************************)
\* setTimeout(..., 30000) of implementBackpressure
backpressureWindow == 30000 \div TickMs

\* usage.processes > 8 || usage.connections > 80 ||
\* Object.values(metrics.operations).some(op => op.avgTime > 5000)
overloaded ==
    \/ getUsage.processes > 8
    \/ getUsage.connections > 80
    \/ \E key \in DOMAIN operationStats :
          operationStats[key].totalTime > 5000 * operationStats[key].count

\* the ledger when monitoring starts: eight processes are registered, one below the
\* overload mark
LedgerBusy ==
    /\ processes = 1..8
    /\ timers = {}
    /\ connections = {}
    /\ fileHandles = {}
    /\ closing = {}
    /\ lastCall = NoCall

PressureInit ==
    /\ pressureTimers = <<>>
    /\ emitted = <<>>

PressureFrame ==
    UNCHANGED <<poolVars, breakerVars, limiterVars, retryVars, metricsVars, cleanupVars,
                toolVars, childVars, wrapVars, recoveryVars>>

\* the number of events of one kind emitted so far
Emitted(event) == Cardinality({i \in DOMAIN emitted : emitted[i].event = event})

\* checkSystemOverload(), called by handleMetricAlert for a 'response_time' alert:
\* when the system is overloaded, implementBackpressure() emits
\* 'enable-backpressure' and sets a 30 s timer
checkSystemOverload ==
    /\ Emitted("enable-backpressure") < MaxOverloads
    /\ IF overloaded
       THEN /\ emitted' = Append(emitted, [event |-> "enable-backpressure", at |-> now])
            /\ pressureTimers' = Append(pressureTimers, now + backpressureWindow)
       ELSE UNCHANGED <<emitted, pressureTimers>>
    /\ UNCHANGED <<ledgerVars, now>>
    /\ PressureFrame

\* a timer of implementBackpressure fires, not before its 30 s have passed (timers of
\* one duration fire in the order they were set): 'disable-backpressure' is emitted
BackpressureTimeout ==
    /\ pressureTimers # <<>>
    /\ now >= Head(pressureTimers)
    /\ pressureTimers' = Tail(pressureTimers)
    /\ emitted' = Append(emitted, [event |-> "disable-backpressure", at |-> now])
    /\ UNCHANGED <<ledgerVars, now>>
    /\ PressureFrame

\* a ninth process is registered / unregistered by a consumer
PressureLoad ==
    /\ \/ registerProcess(9)
       \/ 9 \in processes /\ unregisterProcess(9)
    /\ UNCHANGED <<pressureVars, now>>
    /\ PressureFrame

PressureTick ==
    /\ now < MaxClock
    /\ now' = now + 1
    /\ UNCHANGED <<pressureVars, ledgerVars>>
    /\ PressureFrame

PressureNext ==
    \/ checkSystemOverload
    \/ BackpressureTimeout
    \/ PressureLoad
    \/ PressureTick

InitPressure ==
    /\ LedgerBusy /\ PoolIdle /\ BreakerIdle /\ LimiterIdle
    /\ RetryIdle /\ MetricsIdle /\ CleanupIdle
    /\ ToolIdle /\ ChildIdle /\ WrapIdle /\ PressureInit /\ RecoveryIdle /\ now = 0

SpecPressure == InitPressure /\ [][PressureNext]_vars


(***************************************************************************)
(* AutoRecoverySystem.attemptRecovery / initiateGracefulRestart            *)
(***************************************************************************)
\* this.config
maxRecoveryAttempts == 3
recoveryBackoff == 30000 \div TickMs
\* setTimeout(resolve, 5000) of attemptRecovery, setTimeout(..., 5000) of
\* initiateGracefulRestart
stabilizationWait == 5000 \div TickMs
restartDelay == 5000 \div TickMs

\* Date.now() counts from 1970 and lastRecoveryTime starts at 0, so the first
\* attempt always finds the backoff elapsed. The clock of the model counts from the
\* start of the server: the time 0 of the code lies one backoff before it.
Epoch == 0 - recoveryBackoff

\* the reason tags of the four triggers
Reasons == {"health_check", "eventloop_block", "uncaught_exception",
            "unhandled_rejection"}

\* the three results of the checks of performHealthCheck
HealthStatus == {"healthy", "warning", "critical"}

RecoveryInit ==
    /\ isRecovering = FALSE
    /\ lastRecoveryTime = Epoch
    /\ recoveryAttempts = 0
    /\ recoveries = <<>>
    /\ lastAttempt = [reason |-> "none"]
    /\ recoveryStarts = 0
    /\ failedInRow = 0
    /\ shutdownRequests = 0
    /\ exitTimers = <<>>
    /\ processExited = FALSE

RecoveryFrame ==
    UNCHANGED <<ledgerVars, poolVars, breakerVars, limiterVars, retryVars, metricsVars,
                cleanupVars, toolVars, childVars, wrapVars, pressureVars>>

\* an attemptRecovery without the backoff test
attemptRecoveryNoBackoff(reason) ==
    /\ lastAttempt' = [reason  |-> reason,
                       busy    |-> isRecovering,
                       tooSoon |-> now - lastRecoveryTime < recoveryBackoff,
                       started |-> ~isRecovering]
    /\ IF isRecovering
       THEN UNCHANGED <<isRecovering, lastRecoveryTime, recoveryAttempts, recoveries,
                        recoveryStarts>>
       ELSE /\ recoveryStarts < MaxRecoveries
            /\ isRecovering' = TRUE
            /\ lastRecoveryTime' = now
            /\ recoveryAttempts' = recoveryAttempts + 1
            /\ recoveryStarts' = recoveryStarts + 1
            /\ recoveries' = Append(recoveries,
                   [pc |-> "cleanup", due |-> 0, before |-> recoveryAttempts])

\* attemptRecovery(reason, details) up to its first await: the two guards, then the
\* flag, the time and the counter are set, 'recovery-start' is emitted and
\* performAggressiveCleanup() suspends in resourceManager.cleanup()
attemptRecovery(reason) ==
    /\ lastAttempt' = [reason  |-> reason,
                       busy    |-> isRecovering,
                       tooSoon |-> now - lastRecoveryTime < recoveryBackoff,
                       started |-> ~isRecovering
                                     /\ ~(now - lastRecoveryTime < recoveryBackoff)]
    /\ IF isRecovering
       THEN UNCHANGED <<isRecovering, lastRecoveryTime, recoveryAttempts, recoveries,
                        recoveryStarts>>
       ELSE IF now - lastRecoveryTime < recoveryBackoff
       THEN UNCHANGED <<isRecovering, lastRecoveryTime, recoveryAttempts, recoveries,
                        recoveryStarts>>
       ELSE /\ recoveryStarts < MaxRecoveries
            /\ isRecovering' = TRUE
            /\ lastRecoveryTime' = now
            /\ recoveryAttempts' = recoveryAttempts + 1
            /\ recoveryStarts' = recoveryStarts + 1
            /\ recoveries' = Append(recoveries,
                   [pc |-> "cleanup", due |-> 0, before |-> recoveryAttempts])

\* handleEventLoopBlock (delay > 10 s), 'uncaughtException', 'unhandledRejection'
RecoveryTrigger(reason) ==
    /\ ~processExited
    /\ attemptRecovery(reason)
    /\ UNCHANGED <<failedInRow, shutdownRequests, exitTimers, processExited, now>>
    /\ RecoveryFrame

\* performHealthCheck() run by its 60 s interval: a critical issue calls
\* attemptRecovery('health_check', health)
performHealthCheck(health) ==
    /\ ~processExited
    /\ IF health = "critical"
       THEN attemptRecovery("health_check")
       ELSE UNCHANGED <<isRecovering, lastRecoveryTime, recoveryAttempts, recoveries,
                        lastAttempt, recoveryStarts>>
    /\ UNCHANGED <<failedInRow, shutdownRequests, exitTimers, processExited, now>>
    /\ RecoveryFrame

\* performAggressiveCleanup() resumes after resourceManager.cleanup() and returns;
\* attemptRecovery sets the 5 s stabilization timer
RecoveryCleanupDone(i) ==
    /\ ~processExited
    /\ i \in DOMAIN recoveries
    /\ recoveries[i].pc = "cleanup"
    /\ recoveries' = [recoveries EXCEPT ![i].pc = "stabilizing",
                                        ![i].due = now + stabilizationWait]
    /\ UNCHANGED <<isRecovering, lastRecoveryTime, recoveryAttempts, lastAttempt,
                   recoveryStarts, failedInRow, shutdownRequests, exitTimers,
                   processExited, now>>
    /\ RecoveryFrame

\* the stabilization timer fires, not before its 5 s have passed, and attemptRecovery
\* runs to its end: this.performHealthCheck() (a critical issue calls
\* attemptRecovery('health_check', health), which finds isRecovering set and
\* returns). Healthy: 'recovery-success', recoveryAttempts = 0. Otherwise the catch
\* block: 'recovery-failed' and, with recoveryAttempts >= maxRecoveryAttempts,
\* initiateGracefulRestart(): 'shutdown-requested' and the 5 s exit timer. The finally
\* block clears isRecovering.
RecoverySettle(i, health) ==
    /\ ~processExited
    /\ i \in DOMAIN recoveries
    /\ recoveries[i].pc = "stabilizing"
    /\ now >= recoveries[i].due
    /\ IF health = "critical"
       THEN lastAttempt' = [reason  |-> "health_check",
                            busy    |-> isRecovering,
                            tooSoon |-> now - lastRecoveryTime < recoveryBackoff,
                            started |-> ~isRecovering
                                          /\ ~(now - lastRecoveryTime < recoveryBackoff)]
       ELSE UNCHANGED lastAttempt
    /\ recoveries' = RemoveAt(recoveries, i)
    /\ isRecovering' = FALSE
    /\ IF health = "healthy"
       THEN /\ recoveryAttempts' = 0
            /\ failedInRow' = 0
            /\ UNCHANGED <<shutdownRequests, exitTimers>>
       ELSE /\ failedInRow' = failedInRow + 1
            /\ UNCHANGED recoveryAttempts
            /\ IF recoveryAttempts >= maxRecoveryAttempts
               THEN /\ shutdownRequests' = shutdownRequests + 1
                    /\ exitTimers' = Append(exitTimers, now + restartDelay)
               ELSE UNCHANGED <<shutdownRequests, exitTimers>>
    /\ UNCHANGED <<lastRecoveryTime, recoveryStarts, processExited, now>>
    /\ RecoveryFrame

\* the exit timer of initiateGracefulRestart fires: process.exit(1)
RestartExit ==
    /\ ~processExited
    /\ exitTimers # <<>>
    /\ now >= Head(exitTimers)
    /\ processExited' = TRUE
    /\ UNCHANGED <<isRecovering, lastRecoveryTime, recoveryAttempts, recoveries,
                   lastAttempt, recoveryStarts, failedInRow, shutdownRequests,
                   exitTimers, now>>
    /\ RecoveryFrame

\* time passes; the exit timer is never late (an event loop that is not blocked), the
\* other steps take as long as they take
RecoveryTick ==
    /\ ~processExited
    /\ now < MaxRecoveryClock
    /\ exitTimers # <<>> => now < Head(exitTimers)
    /\ now' = now + 1
    /\ UNCHANGED recoveryVars
    /\ RecoveryFrame

RecoveryNext ==
    \/ \E reason \in Reasons \ {"health_check"} : RecoveryTrigger(reason)
    \/ \E health \in HealthStatus : performHealthCheck(health)
    \/ \E i \in 1..2 : RecoveryCleanupDone(i)
    \/ \E i \in 1..2, health \in HealthStatus : RecoverySettle(i, health)
    \/ RestartExit
    \/ RecoveryTick

InitRecovery ==
    /\ LedgerInit /\ PoolIdle /\ BreakerIdle /\ LimiterIdle
    /\ RetryIdle /\ MetricsIdle /\ CleanupIdle
    /\ ToolIdle /\ ChildIdle /\ WrapIdle /\ PressureIdle /\ RecoveryInit /\ now = 0

SpecRecovery == InitRecovery /\ [][RecoveryNext]_vars


(***************************************************************************)
(* Properties                                                              *)
(***************************************************************************)

\* C1: with maxSize = N and more than N concurrent acquire() calls, no more than N
\* of them complete and inUse never holds more than N entries, also while several
\* acquire() calls are suspended in createConnection() at the same time.
C1_InUseWithinMaxSize ==
    /\ Cardinality(DOMAIN inUse) <= maxSize
    /\ Cardinality({c \in DOMAIN callers : callers[c].pc = "holding"}) <= maxSize

\* C2: in every reachable state of the pool, available.length + inUse.size <= maxSize.
C2_PoolSizeInvariant ==
    Len(available) + Cardinality(DOMAIN inUse) <= maxSize

\* C3: the reported count of each kind never exceeds its cap:
\* processes <= 10, connections <= 100, fileHandles <= 50, timers <= 100.
C3_UsageWithinLimits ==
    /\ getUsage.processes <= 10
    /\ getUsage.connections <= 100
    /\ getUsage.fileHandles <= 50
    /\ getUsage.timers <= 100

\* C3 witness: a register call has just been refused with the map at its cap.
C3_Witness ==
    /\ lastCall.op = "registerConnection"
    /\ lastCall.atCap
    /\ lastCall.error # "none"
    /\ getUsage.connections = 100

\* C4: a register call made with the count at the cap fails with a
\* ResourceExhaustedError and leaves the ledger unchanged.
C4_RegisterAtCapIsResourceExhausted ==
    lastCall.atCap => (lastCall.error = "ResourceExhaustedError" /\ ~lastCall.grew)

\* the call found the breaker open and was let through by the reset check
IsTrial(i) == calls[i].before = "open" /\ calls[i].invoked
\* the call was let through with the breaker half-open
AdmittedHalfOpen(i) == IsTrial(i) \/ calls[i].before = "half-open"

\* C5: from closed, once `threshold` consecutive calls have failed (a rejection of fn
\* or a timeout each count once) with no success in between, the breaker is open;
\* and every call made while it is open and before resetTimeout has elapsed since
\* the last failure is rejected with the breaker-open Error (no TimeoutError)
\* without invoking fn.
C5_OpensAtThresholdAndFailsFast ==
    /\ [](\A i \in DOMAIN calls :
            (calls[i].before = "open" /\ calls[i].waited = "less")
                => /\ calls[i].status = "rejected"
                   /\ ~calls[i].invoked
                   /\ calls[i].error = "Error")
    /\ [][(state = "closed" /\ streak' >= threshold) => state' = "open"]_vars

\* C5 witness: with threshold 2, a rejection of fn and a timeout have opened the
\* breaker and the next call has been refused
C5_Witness ==
    /\ threshold = 2
    /\ \E i, j, k \in DOMAIN calls :
          /\ i < j /\ j < k
          /\ calls[i].error = "FnError"
          /\ calls[j].error = "TimeoutError"
          /\ calls[k].before = "open" /\ calls[k].waited = "less"
          /\ calls[k].error = "Error"

\* C6: if the trial call made while the breaker is half-open fails, the breaker
\* returns to open, for every threshold >= 1.
C6_FailedTrialReopens ==
    [][\A i \in DOMAIN calls :
          (IsTrial(i) /\ calls[i].status = "running" /\ calls'[i].status = "rejected")
              => state' = "open"]_vars

\* C7: while the breaker is half-open at most one call is running against fn.
C7_SingleTrialInHalfOpen ==
    Cardinality({i \in DOMAIN calls :
        calls[i].status = "running" /\ AdmittedHalfOpen(i)}) <= 1

AcceptedIn(id, from, to) ==
    {k \in DOMAIN history[id] :
        /\ history[id][k].allowed
        /\ from <= history[id][k].time
        /\ history[id][k].time <= to}

\* C9 (as stated): for every identifier and instant, the calls accepted in the closed
\* window [now - windowMs, now] never exceed maxRequests (a timestamp exactly
\* windowMs old still counts).
C9_ClosedWindowWithinQuota ==
    \A id \in Identifiers, t \in 0..now :
        Cardinality(AcceptedIn(id, t - windowMs, t)) <= maxRequests

\* C9 (amended): the calls accepted in the half-open window (now - windowMs, now]
\* never exceed maxRequests; a timestamp exactly windowMs old no longer counts.
C9_HalfOpenWindowWithinQuota ==
    \A id \in Identifiers, t \in 0..now :
        Cardinality(AcceptedIn(id, t - windowMs + 1, t)) <= maxRequests

\* C9 witness: the window is full, a call has just been refused, and a call accepted
\* exactly windowMs ago is not among the active ones
C9_Witness ==
    \E id \in Identifiers :
        /\ Len(history[id]) > 0
        /\ ~history[id][Len(history[id])].allowed
        /\ history[id][Len(history[id])].time = now
        /\ Cardinality(AcceptedIn(id, now - windowMs + 1, now)) = maxRequests
        /\ AcceptedIn(id, now - windowMs, now - windowMs) # {}

\* the last call of id before call k that was accepted (0 if none)
LastAcceptedBefore(id, k) ==
    LET earlier == {j \in 1..(k - 1) : history[id][j].allowed}
    IN IF earlier = {} THEN 0 ELSE Max(earlier)

\* C10: with maxRequests = M >= 1, of the first M+1 calls of an identifier made within
\* less than windowMs the first M return true and the (M+1)th false; a call made more
\* than windowMs after the last accepted call returns true.
C10_QuotaThenRefusalThenAgain ==
    \A id \in Identifiers :
        /\ (/\ Len(history[id]) >= maxRequests + 1
            /\ history[id][maxRequests + 1].time - history[id][1].time < windowMs)
              => /\ \A k \in 1..maxRequests : history[id][k].allowed
                 /\ ~history[id][maxRequests + 1].allowed
        /\ \A k \in DOMAIN history[id] :
              (/\ LastAcceptedBefore(id, k) # 0
               /\ history[id][k].time
                     - history[id][LastAcceptedBefore(id, k)].time > windowMs)
                  => history[id][k].allowed

\* C10 witness: maxRequests = 3, four calls within the window gave
\* [true, true, true, false], and a call after the window was accepted
C10_Witness ==
    /\ maxRequests = 3
    /\ \E id \in Identifiers :
          /\ Len(history[id]) = 5
          /\ history[id][4].time - history[id][1].time < windowMs
          /\ \A k \in 1..3 : history[id][k].allowed
          /\ ~history[id][4].allowed
          /\ history[id][5].time - history[id][3].time > windowMs
          /\ history[id][5].allowed

\* the calls of id before call k that were accepted less than windowMs before it
AcceptedBefore(id, k) ==
    {j \in 1..(k - 1) : /\ history[id][j].allowed
                        /\ history[id][k].time - history[id][j].time < windowMs}

\* C11: a rejected isAllowed call leaves the stored timestamps unchanged, so a call is
\* admitted exactly when fewer than maxRequests ACCEPTED calls lie in its window:
\* rejected calls consume no quota and never postpone the next admission.
C11_RejectionLeavesStateUnchanged ==
    /\ [][\A id \in Identifiers :
            (/\ Len(history'[id]) = Len(history[id]) + 1
             /\ ~history'[id][Len(history'[id])].allowed) => requests' = requests]_vars
    /\ [](\A id \in Identifiers : \A k \in DOMAIN history[id] :
            history[id][k].allowed
                <=> Cardinality(AcceptedBefore(id, k)) < maxRequests)

\* C11 witness: an identifier was rejected twice, and a later call, made once an
\* accepted call had left the window, was admitted
C11_Witness ==
    \E id \in Identifiers : \E k \in DOMAIN history[id] :
        /\ k + 2 <= Len(history[id])
        /\ ~history[id][k].allowed
        /\ ~history[id][k + 1].allowed
        /\ history[id][k + 2].allowed
        /\ requests[id] # <<>>

\* the errors a state's failed attempts threw were all retried by shouldRetry
AllRetryable == \A i \in DOMAIN thrown : shouldRetry(thrown[i])

\* C12: with maxAttempts = n, an operation that fails k < n times with retryable
\* errors and then succeeds makes retry resolve with that success value after
\* exactly k+1 invocations, and onRetry has been called exactly k times, call i with
\* the error of attempt i and the attempt number i.
C12_RetryThenSuccess ==
    /\ (AllRetryable /\ Len(thrown) < maxAttempts) => retryPc # "rejected"
    /\ retryPc = "resolved" =>
          /\ Len(thrown) < maxAttempts
          /\ retryResult = [kind |-> "value", attempt |-> Len(thrown) + 1]
          /\ invoked = Len(thrown) + 1
          /\ \A i \in DOMAIN thrown : thrown[i].attempt = i
          /\ onRetry => onRetryCalls =
                [i \in 1..Len(thrown) |-> [error |-> thrown[i], attempt |-> i]]

\* C12 witness: maxAttempts = 3, two retryable failures, then success, two onRetry calls
C12_Witness ==
    /\ maxAttempts = 3
    /\ onRetry
    /\ retryPc = "resolved"
    /\ Len(thrown) = 2
    /\ Len(onRetryCalls) = 2
    /\ invoked = 3

\* the retryable taxonomy by class: a TimeoutError, an ExternalServiceError, or a
\* DatabaseError whose message contains deadlock, timeout or connection
InTaxonomy(error) ==
    \/ error.name \in {"TimeoutError", "ExternalServiceError"}
    \/ /\ error.name = "DatabaseError"
       /\ \/ includes(error, "deadlock")
          \/ includes(error, "timeout")
          \/ includes(error, "connection")

\* the network errors, recognised by their message whatever their class
IsNetworkError(error) ==
    \/ includes(error, "ECONNREFUSED")
    \/ includes(error, "ETIMEDOUT")
    \/ includes(error, "ENOTFOUND")

\* retry() has propagated the error of attempt i at once: it is the last attempt
\* made, retry() rejected with it, and no onRetry call and no delay followed it
PropagatedAtOnce(i) ==
    /\ i = Len(thrown)
    /\ retryPc = "rejected"
    /\ retryResult = [kind |-> "error", error |-> thrown[i]]
    /\ invoked = i
    /\ Len(slept) = i - 1
    /\ Len(onRetryCalls) = IF onRetry THEN i - 1 ELSE 0

\* C13 (as stated): an attempt that fails with an error outside the taxonomy, so
\* with any generic Error whatever its message, is propagated at once.
C13_OutsideTaxonomyPropagates ==
    \A i \in DOMAIN thrown : ~InTaxonomy(thrown[i]) => PropagatedAtOnce(i)

\* C13 (amended): an attempt that fails with an error that is outside the taxonomy
\* and whose message contains none of ECONNREFUSED, ETIMEDOUT, ENOTFOUND is
\* propagated at once: no further attempt, no onRetry call and no delay follow.
C13_NonRetryablePropagates ==
    \A i \in DOMAIN thrown :
        (~InTaxonomy(thrown[i]) /\ ~IsNetworkError(thrown[i])) => PropagatedAtOnce(i)

\* C13 witness: the first of three allowed attempts failed with a generic Error that
\* is no network error, and retry() rejected with it after that single attempt
C13_Witness ==
    /\ maxAttempts = 3
    /\ onRetry
    /\ Len(thrown) = 1
    /\ thrown[1].name = "Error"
    /\ ~IsNetworkError(thrown[1])
    /\ retryPc = "rejected"
    /\ invoked = 1
    /\ onRetryCalls = <<>>
    /\ slept = <<>>

\* C14: when every attempt fails with a retryable error, retry() invokes the
\* operation exactly maxAttempts times, calls onRetry exactly maxAttempts - 1 times,
\* and rejects with the error of the last attempt.
C14_ExhaustionRethrowsLast ==
    (retryPc = "rejected" /\ AllRetryable) =>
        /\ Len(thrown) = maxAttempts
        /\ invoked = maxAttempts
        /\ onRetry => Len(onRetryCalls) = maxAttempts - 1
        /\ Len(slept) = maxAttempts - 1
        /\ retryResult = [kind |-> "error", error |-> thrown[maxAttempts]]
        /\ thrown[maxAttempts].attempt = maxAttempts

\* C14 witness: three attempts, each failed with a different retryable error, and
\* retry() rejected with the third
C14_Witness ==
    /\ maxAttempts = 3
    /\ onRetry
    /\ retryPc = "rejected"
    /\ AllRetryable
    /\ Len(thrown) = 3
    /\ thrown[1].name # thrown[3].name
    /\ thrown[2].name # thrown[3].name
    /\ retryResult.error = thrown[3]

\* C15: cleanup() never rejects, also when a kill() throws or a close() throws or
\* rejects, and at the moment it resolves getUsage() reports zero processes,
\* connections, fileHandles and timers.
C15_CleanupResolvesWithZeroUsage ==
    /\ [](cleanupPc # "rejected")
    /\ [][(cleanupPc' = "resolved" /\ cleanupPc # "resolved") =>
            getUsage' = [processes |-> 0, connections |-> 0,
                         fileHandles |-> 0, timers |-> 0]]_vars

\* C15 witness: a cleanup() during which a teardown call failed has resolved, and
\* the ledger is empty
C15_Witness ==
    /\ cleanupPc = "resolved"
    /\ teardownFailed
    /\ getUsage = [processes |-> 0, connections |-> 0, fileHandles |-> 0, timers |-> 0]

CallsAt(pc) == {c \in DOMAIN callers : callers[c].pc = pc}

\* C17: an acquire() call starts waiting only when nothing is available and the
\* pool is at capacity; a waiting call is never rejected, it leaves the wait only
\* with an entry (the last of available, when there is one) or to create one; and
\* as long as an entry stays in available, the waiting calls eventually return.
\* (nextId = MaxIds ends the run of the model.)
C17_WaitingAcquireEventuallyReturns ==
    /\ [][/\ Cardinality(CallsAt("waiting")') > Cardinality(CallsAt("waiting")) =>
                /\ available = <<>>
                /\ Cardinality(DOMAIN inUse) >= maxSize
          /\ Cardinality(CallsAt("waiting")') < Cardinality(CallsAt("waiting")) =>
                /\ Cardinality(CallsAt("idle")') = Cardinality(CallsAt("idle"))
                /\ available # <<>> =>
                      /\ available' = Front(available)
                      /\ \E id \in DOMAIN inUse' \ DOMAIN inUse :
                            inUse'[id] = Last(available)]_vars
    /\ (CallsAt("waiting") # {} /\ available # <<>> /\ nextId < MaxIds)
          ~> (CallsAt("waiting") = {} \/ available = <<>> \/ nextId = MaxIds)

\* C17 witness: the pool is at capacity, an acquire() call is waiting, and the entry
\* another consumer has released is in available
C17_Witness ==
    /\ CallsAt("waiting") # {}
    /\ Len(available) = 1
    /\ available[1] \in closed
    /\ nextId < MaxIds

\* C18: release(id) with an id that is not in inUse changes neither available nor
\* inUse and calls neither destroyFn nor the ledger; no entry is ever in available
\* twice, or in available while it is in use.
C18_UnknownReleaseIsNoOp ==
    /\ [][staleRelease' # staleRelease =>
            /\ UNCHANGED <<available, inUse, destroyed, closed, draining>>
            /\ UNCHANGED ledgerVars]_vars
    /\ [](/\ \A i, j \in DOMAIN available : i # j => available[i] # available[j]
          /\ \A id \in DOMAIN inUse : inUse[id] \notin Range(available))

\* C18 witness: an id has been acquired and released, its entry is back in
\* available, and release() has been called with an id that is not in inUse
C18_Witness ==
    /\ staleRelease
    /\ (1..nextId) \ DOMAIN inUse # {}
    /\ available # <<>>
    /\ Range(available) \subseteq closed

\* C20: every entry acquire() returns is live: no pooled entry has been closed by
\* the ledger's unregisterConnection (an entry is closed or destroyed only by drain()
\* or by the disposal of an excess entry), and no entry in use is one that drain()
\* has called destroyFn on.
C20_AcquiredEntriesAreLive ==
    /\ closed = {}
    /\ \A id \in DOMAIN inUse : inUse[id] \notin closed \cup destroyed

\* the sum of the durations of a sequence of recorded operations
RECURSIVE SumDurations(_)
SumDurations(ops) ==
    IF ops = <<>> THEN 0 ELSE ops[1].duration + SumDurations(Tail(ops))

\* C19: after the recordOperation calls made for a key (since the last reset),
\* getOperationStats reports count = the number of calls, avgTime = the sum of the
\* durations / count, minTime and maxTime = the smallest and the largest duration,
\* errorRate = the number of calls flagged as error / count; durations [10, 20, 30]
\* without error give 3, 20, 10, 30, 0.
C19_OperationStats ==
    \A key \in Keys :
        LET ops == recorded[key]
            report == getOperationStats(key)
            n == Len(ops)
            durations == {ops[i].duration : i \in DOMAIN ops}
            errors == Cardinality({i \in DOMAIN ops : ops[i].error})
        IN /\ n = 0 => report = [null |-> TRUE]
           /\ n > 0 =>
                 /\ report.count = n
                 /\ report.avgTime.num * n = SumDurations(ops) * report.avgTime.den
                 /\ report.minTime = Min(durations)
                 /\ report.maxTime = Max(durations)
                 /\ report.errorRate.num * n = errors * report.errorRate.den
           /\ (/\ n = 3
               /\ \A i \in 1..3 : ops[i] = [duration |-> 10 * i, error |-> FALSE])
                 => /\ report.count = 3
                    /\ report.avgTime = [num |-> 20, den |-> 1]
                    /\ report.minTime = 10
                    /\ report.maxTime = 30
                    /\ report.errorRate = [num |-> 0, den |-> 1]

\* C19 witness: durations 10, 20, 30 have been recorded for a key without error
C19_Witness ==
    \E key \in Keys :
        recorded[key] = [i \in 1..3 |-> [duration |-> 10 * i, error |-> FALSE]]

(***************************************************************************)
(* C21: ResourceManager.cleanup() run by a recovery action while           *)
(* operations are in flight never closes or unregisters a connection that  *)
(* a consumer holds between acquire() and release(): no step of cleanup()  *)
(* calls close() on the connection of a held id or removes a held id from  *)
(* the ledger.                                                             *)
(***************************************************************************)
\* the ids consumers hold: acquire() has returned them, release() is not called yet
HeldIds == {callers[c].id : c \in {k \in DOMAIN callers : callers[k].pc = "holding"}}

C21_CleanupSparesHeldConnections ==
    [][cleanupVars' # cleanupVars =>
          /\ (cleanupPc' = "connections" /\ cleanupPc # "connections")
                => HeldIds \cap connections = {}
          /\ HeldIds \cap (connections \ connections') = {}]_vars

(***************************************************************************)
(* C25: a failed acquire() leaves the pool as it was before the call. The  *)
(* step in which an acquire() call rejects, because createFn rejected or   *)
(* because registerConnection threw at the connection cap, changes neither *)
(* inUse nor available, and every id of inUse is held by a consumer that   *)
(* can release it (so that the wait loop of drain() can end).              *)
(***************************************************************************)
\* this step rejects an acquire() call: registerConnection threw inside it, or its
\* createConnection() rejected
AcquireRejects ==
    \/ nextId' = nextId + 1 /\ lastCall'.error = "Error"
    \/ /\ nextId' = nextId
       /\ Cardinality({k \in DOMAIN callers' : callers'[k].pc = "creating"})
             < Cardinality(CallsAt("creating"))

C25_FailedAcquireLeavesPoolUnchanged ==
    /\ [][AcquireRejects => (inUse' = inUse /\ available' = available)]_vars
    /\ [](DOMAIN inUse \subseteq HeldIds)

(***************************************************************************)
(* C22: every timer BaseTool.execute registers with the ledger for its     *)
(* timeout race is unregistered by the time that execute call settles:     *)
(* whenever no execute call is in flight the ledger holds no timer id of   *)
(* the tool (its timer count is what it was before the executions), and no *)
(* execution finds the ledger at the timer cap.                            *)
(***************************************************************************)
C22_TimersUnregisteredWhenSettled ==
    /\ executions = <<>> => timers \cap ToolTimerIds = {}
    /\ lastCall.op = "registerTimer" => lastCall.error = "none"

(***************************************************************************)
(* C23: when a registered child process exits, its exit listener removes   *)
(* that process's ledger entry and affects only that process: the exit of  *)
(* one child removes the entry under which that child is stored, and it    *)
(* neither removes the entry of another child nor sends another child a    *)
(* signal when the id has been unregistered (which sends the exiting child *)
(* SIGTERM) and registered again for another child.                        *)
(***************************************************************************)
\* this step is the exit of child p
Exits(p) == p \in DOMAIN children /\ children[p].alive /\ ~children'[p].alive

C23_ExitAffectsOnlyItsProcess ==
    [][\A p \in 1..MaxChildren : Exits(p) =>
          /\ \A id \in DOMAIN processOf :
                processOf[id] = p => id \notin DOMAIN processOf'
          /\ \A q \in DOMAIN children \ {p} : children[p].killed =>
                /\ children'[q].signals = children[q].signals
                /\ \A id \in DOMAIN processOf :
                      processOf[id] = q =>
                          (id \in DOMAIN processOf' /\ processOf'[id] = q)]_vars

(***************************************************************************)
(* C24: unregisterProcess on a registered process that is still alive      *)
(* sends SIGTERM, and when the grace window ends with the process still    *)
(* not terminated the forced kill is sent: the force-kill timer of a child *)
(* that is still alive sends that child SIGKILL.                           *)
(***************************************************************************)
C24_ForceKillAfterGrace ==
    [][/\ \A id \in DOMAIN processOf :
             (id \notin DOMAIN processOf' /\ children[processOf[id]].alive
                  /\ children'[processOf[id]].alive)
                 => "SIGTERM" \in children'[processOf[id]].signals
       /\ \A t \in graceTimers \ graceTimers' :
             children[t.child].alive => "SIGKILL" \in children'[t.child].signals]_vars

(***************************************************************************)
(* C28: under any interleaving of concurrent calls through one breaker,    *)
(* calls that started in an earlier state and settle later included, the   *)
(* state changes only along closed -> open (with failures >= threshold),   *)
(* open -> half-open, half-open -> closed and half-open -> open; no step   *)
(* takes it from open to closed or from closed to half-open.               *)
(***************************************************************************)
C28_OnlyLegalTransitions ==
    [][state' # state =>
          \/ state = "closed" /\ state' = "open" /\ failures' >= threshold
          \/ state = "open" /\ state' = "half-open"
          \/ state = "half-open" /\ state' = "closed"
          \/ state = "half-open" /\ state' = "open"]_vars

\* a call made while the breaker was closed has settled late: the breaker opened and
\* went half-open with the trial call j, and while j is still running the success of
\* the earlier call closed the breaker
C28_Witness ==
    /\ state = "closed"
    /\ \E j \in DOMAIN calls :
          /\ calls[j].before = "open"
          /\ calls[j].status = "running"
          /\ \E i \in 1..(j - 1) : calls[i].status = "resolved"
          /\ \A i \in DOMAIN calls :
                calls[i].status = "resolved" => (i < j /\ calls[i].before = "closed")

(***************************************************************************)
(* C30: for a function wrapped by withMetrics every call, successful or    *)
(* failed, adds exactly one to the operation's count, and the errorRate of *)
(* the operation is failed calls / total calls (1 for a function that      *)
(* fails on every call).                                                   *)
(***************************************************************************)
C30_OneRecordPerWrappedCall ==
    \A key \in DOMAIN wrapped :
        LET settled == wrapped[key].succeeded + wrapped[key].failed
        IN settled > 0 =>
             /\ getOperationStats(key).count = settled
             /\ getOperationStats(key).errorRate = Divide(wrapped[key].failed, settled)

(***************************************************************************)
(* C29: backpressure stays active for 30 s after an overload is detected.  *)
(* No 'disable-backpressure' is emitted less than 30 s after the most      *)
(* recent 'enable-backpressure', also when overloads are detected again    *)
(* while backpressure is active; and every 'enable-backpressure' has its   *)
(* 'disable-backpressure' pending or emitted.                              *)
(***************************************************************************)
C29_BackpressureHeldForWindow ==
    /\ \A j \in DOMAIN emitted : emitted[j].event = "disable-backpressure" =>
          \A i \in 1..(j - 1) : emitted[i].event = "enable-backpressure" =>
              emitted[j].at - emitted[i].at >= backpressureWindow
    /\ Emitted("enable-backpressure")
           = Emitted("disable-backpressure") + Len(pressureTimers)

\* C26: a successful recovery resets recoveryAttempts to 0, a failed one leaves it one
\* higher than before that recovery; 'shutdown-requested' is emitted exactly by the
\* third failed recovery in a row, and recoveryAttempts never exceeds 3.
C26_RestartAtThirdFailure ==
    /\ [][Len(recoveries') < Len(recoveries) =>
            /\ failedInRow' = 0 => recoveryAttempts' = 0
            /\ failedInRow' = failedInRow + 1 =>
                 /\ recoveryAttempts' = recoveries[1].before + 1
                 /\ (shutdownRequests' = shutdownRequests + 1)
                      <=> (failedInRow' = maxRecoveryAttempts)]_vars
    /\ [][shutdownRequests' # shutdownRequests =>
            Len(recoveries') < Len(recoveries)]_vars
    /\ [](recoveryAttempts <= maxRecoveryAttempts)

\* C27: at most one recovery runs at a time, a recovery starts only while none runs
\* and at least the backoff after the previous start, and a call that does not start a
\* recovery leaves lastRecoveryTime alone and does not raise recoveryAttempts.
C27_OneRecoveryPerBackoff ==
    /\ [](Len(recoveries) <= 1)
    /\ [](isRecovering <=> recoveries # <<>>)
    /\ [][recoveryStarts' # recoveryStarts =>
            /\ ~isRecovering
            /\ now - lastRecoveryTime >= recoveryBackoff
            /\ lastAttempt'.started]_vars
    /\ [][recoveryStarts' = recoveryStarts =>
            /\ lastRecoveryTime' = lastRecoveryTime
            /\ recoveryAttempts' <= recoveryAttempts
            /\ lastAttempt' # lastAttempt => ~lastAttempt'.started]_vars

\* an uncaught exception less than the backoff after a finished recovery was refused
C27_Witness ==
    /\ lastAttempt.reason = "uncaught_exception"
    /\ lastAttempt.tooSoon
    /\ ~lastAttempt.busy
    /\ ~lastAttempt.started
    /\ recoveryStarts >= 1
    /\ lastRecoveryTime > Epoch

====
